---- MODULE Spec2Model ----
(***************************************************************************)
(* Render-layer attribute resolution, visibility / hierarchy queries, the   *)
(* render-layer instance collector, the asset hasher, the scene timeline,  *)
(* the lock state and the host installation of reveries-config, as state   *)
(* machines over a model of the host scene.                                *)
(*                                                                         *)
(* Strings the code takes apart (startswith, endswith, rsplit) are         *)
(* sequences of tokens; every other name is an atom.  A value is a pair    *)
(* <<tag, payload>> with an integer payload: <<"bool", 1>> is True,        *)
(* <<"float", 1>> is 1.0, <<"long", 1>> is 1, <<"str", k>> the k-th text.  *)
(***************************************************************************)
EXTENDS Integers, Sequences, FiniteSets, TLC

VARIABLES
    renderLayers,        \* cmds.ls(type="renderLayer"), in enumeration order
    currentRenderLayer,  \* editRenderLayerGlobals(currentRenderLayer)
    connections,         \* plug -> layers whose adjustments it feeds, in listConnections order
    layerValue,          \* plug -> layer -> the value the attribute has when that layer is active
    dag,                 \* node -> its parent, type and display attributes
    layerAttrs,          \* layer -> displayOrder, renderable, referenced, linked to the manager, members
    host,                \* outside the scene: avalon.maya.is_locked(), os.sep; or
                         \* the selection, the file system and the hasher, the
                         \* project's data and the time settings, a caller's lock
                         \* state, or the plug-in registries
    context,             \* the publish context: its instances in creation order, and its data
    collector,           \* CollectRenderlayers.process: where it is and its locals
    call                 \* the last library call and what it returned or raised

layerVars == <<renderLayers, currentRenderLayer, connections, layerValue>>
collectVars == <<layerAttrs, host, context, collector>>
sceneVars == <<renderLayers, currentRenderLayer, connections, layerValue, dag,
               layerAttrs, host, context, collector>>
vars == <<renderLayers, currentRenderLayer, connections, layerValue, dag,
          layerAttrs, host, context, collector, call>>

----------------------------------------------------------------------------
(* Bounds *)

\* most per-layer overrides (plug, layer) the scene holds at once
MaxOverrides == 2

\* most display attributes that differ from a new node's at once
MaxEdits == 3

\* most nodes handed to get_highest_in_hierarchy in one call
MaxInput == 3

\* the largest displayOrder of a render layer
MaxDisplayOrder == 2

\* the most output paths an instance handed to set_extraction_type has
MaxPaths == 2

\* most transforms selected and handed to filter_mesh_parenting in one call
MaxTransforms == 4

\* most nodes handed to acquire_lock_state in one call
MaxLocked == 2

\* the last frame the artist moves the current time to
MaxFrame == 4

\* the most files fed to a hasher before another add_file or add_dir is not
\* tried any more
MaxFed == 3

----------------------------------------------------------------------------
(* Python string primitives on token sequences *)

StartsWith(s, prefix) ==
    /\ Len(prefix) <= Len(s)
    /\ SubSeq(s, 1, Len(prefix)) = prefix

\* s.rsplit(".", 1)[0]: every token of a plug name but the last carries one dot
RsplitHead(s) == SubSeq(s, 1, Len(s) - 1)

SeqToSet(s) == {s[i] : i \in 1..Len(s)}

InsertAt(s, i, x) == SubSeq(s, 1, i - 1) \o <<x>> \o SubSeq(s, i, Len(s))

----------------------------------------------------------------------------
(* The scene: render layers, attributes, adjustments *)

DefaultRenderLayer == <<"defaultRenderLayer">>

Layer1 == <<"layer1">>

Layer2 == <<"layer2">>

\* a name no render layer has
GhostLayer == <<"ghostLayer">>

\* None: the layer argument left out
NoLayer == <<>>

SceneLayers == <<DefaultRenderLayer, Layer1, Layer2>>

\* cmds.ls(layer, type="renderLayer") finds these
LayerNames == SeqToSet(renderLayers)

\* every node name of the model, in the order the host lists nodes
NodeOrder == <<"ROOT", "A", "B", "C", "AShape", "AShapeOrig", "BShape",
               "cam1", "cam1Shape", "cam2", "cam2Shape", "set1", "imgseqSet">>

\* a name no node has
GhostNode == "ghost"

\* the world: the parent of a top-level node
World == "|"

\* the nodes of the scene
Nodes == DOMAIN dag

RECURSIVE LongName(_)
\* the full path of a dag node, cmds.ls(node, long=True): "|" and the name of
\* every node from the top down; a node outside the dag keeps its name
LongName(n) ==
    IF dag[n].type = "objectSet" THEN <<n>>
    ELSE IF dag[n].parent = World THEN <<"|", n>>
    ELSE LongName(dag[n].parent) \o <<"|", n>>

\* cmds.ls(type=t, long=True)
LsType(t) ==
    LET found == SelectSeq(NodeOrder, LAMBDA n : n \in Nodes /\ dag[n].type = t)
    IN  [i \in 1..Len(found) |-> LongName(found[i])]

\* cmds.ls(type="camera", long=True)
Cameras == LsType("camera")

DefaultRenderGlobals == <<"defaultRenderGlobals">>

\* the attributes that exist, as <<node, attr>>
Plugs == DOMAIN layerValue

\* cmds.getAttr(node_attr, type=True)
AttrType(p) ==
    IF p[2] \in {"renderable", "deadlineEnable"} THEN "bool"
    ELSE IF p[2] = "deadlinePriority" THEN "long"
    ELSE IF p[2] = "byFrameStep" THEN "float"
    ELSE IF p[2] \in {"startFrame", "endFrame"} THEN "time"
    ELSE "string"

None == <<"None", 0>>

\* the values an attribute of that type takes
ValuesOf(type) ==
    IF type = "bool" THEN {<<"bool", 0>>, <<"bool", 1>>}
    ELSE IF type = "long" THEN {<<"long", 1>>, <<"long", 2>>}
    ELSE {<<"float", 1>>, <<"float", 2>>}

\* what <layer>.adjustments[i].value holds for a value: numbers are kept as
\* floating point, the attribute's own type is lost
RawValue(v) == IF v[1] \in {"bool", "long", "float"} THEN <<"float", v[2]>> ELSE v

\* the value as the adjustment holds it, whatever the attribute's type
TypeKeepRaw(type, raw) == raw

\* type_ = eval(<type name>), or the identity when the name is no Python type
TypeCoerce(type, raw) ==
    IF type = "bool" THEN <<"bool", IF raw[2] # 0 THEN 1 ELSE 0>>
    ELSE IF type = "long" THEN <<"long", raw[2]>>
    ELSE IF type = "float" THEN <<"float", raw[2]>>
    ELSE raw

\* Python truth of a returned value
Truthy(v) == v # None /\ (IF v[1] = "str" THEN v[2] # <<>> ELSE v[2] # 0)

\* the index of a plug in a layer's adjustments array
AdjustmentIndex(p) == <<"[">> \o p[1] \o <<p[2], "]">>

\* <layer>.adjustments[i].plug
AdjustmentPlug(layer, p) == layer \o <<".adjustments">> \o AdjustmentIndex(p) \o <<".plug">>

\* cmds.listConnections(node_attr, type="renderLayer", source=False, plugs=True)
ListConnections(p) ==
    [i \in 1..Len(connections[p]) |-> AdjustmentPlug(connections[p][i], p)]

\* cmds.getAttr(node_attr, asString=True) with `cur` the active layer
GetAttr(p, cur) == layerValue[p][cur]

\* the position of the first token x of s
RECURSIVE IndexOf(_, _, _)
IndexOf(s, x, i) == IF i > Len(s) \/ s[i] = x THEN i ELSE IndexOf(s, x, i + 1)

\* cmds.getAttr("<layer>.adjustments[i].value", asString=True): the name is
\* <layer> .adjustments [ <node> <attr> ] .value
GetAdjustmentValue(name) ==
    LET k == IndexOf(name, ".adjustments", 1)
        layer == SubSeq(name, 1, k - 1)
        node == SubSeq(name, k + 2, Len(name) - 3)
        attr == name[Len(name) - 2]
    IN  RawValue(layerValue[<<node, attr>>][layer])

Overrides == {lp \in LayerNames \X Plugs :
                 lp[1] # DefaultRenderLayer /\ lp[1] \in SeqToSet(connections[lp[2]])}

----------------------------------------------------------------------------
(* reveries.maya.lib.query_by_renderlayer *)

Returned(v, n) == [status |-> "ok", value |-> v, reads |-> n]

Raised(e) == [status |-> e, value |-> None, reads |-> 0]

\* get_value(conn)
get_value(p, conn) ==
    TypeCoerce(AttrType(p), GetAdjustmentValue(RsplitHead(conn) \o <<".value">>))

\* the loop with the default layer's connection taken as a match like the
\* target layer's: whichever of the two is enumerated first is returned
RECURSIVE ScanFirstMatch(_, _, _, _, _, _, _)
ScanFirstMatch(p, layer, cur, conns, i, origin_value, reads) ==
    IF i > Len(conns)
    THEN Returned(GetAttr(p, cur), reads + 1)
    ELSE IF \/ StartsWith(conns[i], DefaultRenderLayer \o <<".adjustments">>)
            \/ StartsWith(conns[i], layer \o <<".adjustments">>)
    THEN Returned(get_value(p, conns[i]), reads + 1)
    ELSE ScanFirstMatch(p, layer, cur, conns, i + 1, origin_value, reads)

\* the loop without the origin value: an attribute overridden in other layers
\* only is read directly
RECURSIVE ScanIgnoringOrigin(_, _, _, _, _, _, _)
ScanIgnoringOrigin(p, layer, cur, conns, i, origin_value, reads) ==
    IF i > Len(conns)
    THEN Returned(GetAttr(p, cur), reads + 1)
    ELSE IF ~StartsWith(conns[i], layer \o <<".adjustments">>)
    THEN ScanIgnoringOrigin(p, layer, cur, conns, i + 1, origin_value, reads)
    ELSE Returned(get_value(p, conns[i]), reads + 1)

\* the for loop over the connections, from position i on; `reads` counts the
\* values read so far
RECURSIVE ScanConnections(_, _, _, _, _, _, _)
ScanConnections(p, layer, cur, conns, i, origin_value, reads) ==
    IF i > Len(conns)
    THEN IF origin_value # None
         THEN Returned(origin_value, reads)
         ELSE Returned(GetAttr(p, cur), reads + 1)
    ELSE IF StartsWith(conns[i], DefaultRenderLayer \o <<".adjustments">>)
    THEN ScanConnections(p, layer, cur, conns, i + 1,
                         get_value(p, conns[i]), reads + 1)
    ELSE IF ~StartsWith(conns[i], layer \o <<".adjustments">>)
    THEN ScanConnections(p, layer, cur, conns, i + 1, origin_value, reads)
    ELSE Returned(get_value(p, conns[i]), reads + 1)

\* the query with the fast path taken before the two existence checks: the
\* host's own read raises ValueError on a missing attribute
query_fast_path_first(node, attr, layer, cur) ==
    IF layer = cur
    THEN IF <<node, attr>> \in Plugs
         THEN Returned(GetAttr(<<node, attr>>, cur), 1)
         ELSE [status |-> "ValueError", value |-> None, reads |-> 1]
    ELSE IF layer \notin LayerNames
    THEN Raised("ValueError")
    ELSE IF <<node, attr>> \notin Plugs
    THEN Raised("AttributeError")
    ELSE ScanConnections(<<node, attr>>, layer, cur,
                         ListConnections(<<node, attr>>), 1, None, 0)

\* the query whose slow path returns the origin value even when no
\* connection set it
query_origin_only(node, attr, layer, cur) ==
    IF layer \notin LayerNames
    THEN Raised("ValueError")
    ELSE IF <<node, attr>> \notin Plugs
    THEN Raised("AttributeError")
    ELSE IF layer = cur
    THEN Returned(GetAttr(<<node, attr>>, cur), 1)
    ELSE LET r == ScanConnections(<<node, attr>>, layer, cur,
                                  ListConnections(<<node, attr>>), 1, None, 0)
         IN  IF ListConnections(<<node, attr>>) = <<>>
             THEN Returned(None, 0)
             ELSE r

query_by_renderlayer(node, attr, layer, cur) ==
    IF layer \notin LayerNames
    THEN Raised("ValueError")
    ELSE IF <<node, attr>> \notin Plugs
    THEN Raised("AttributeError")
    ELSE IF layer = cur
    THEN Returned(GetAttr(<<node, attr>>, cur), 1)
    ELSE ScanConnections(<<node, attr>>, layer, cur,
                         ListConnections(<<node, attr>>), 1, None, 0)

----------------------------------------------------------------------------
(* reveries.maya.lib.ls_renderable_cameras *)

\* the list comprehension over the cameras, from position i on: the first
\* query that raises ends the call
RECURSIVE RenderableFrom(_, _, _, _)
RenderableFrom(cams, layer, cur, i) ==
    IF i > Len(cams)
    THEN [status |-> "ok", cams |-> <<>>]
    ELSE LET q == query_by_renderlayer(cams[i], "renderable", layer, cur)
             rest == RenderableFrom(cams, layer, cur, i + 1)
         IN  IF q.status # "ok" THEN [status |-> q.status, cams |-> <<>>]
             ELSE IF rest.status # "ok" THEN rest
             ELSE [status |-> "ok",
                   cams |-> IF Truthy(q.value) THEN <<cams[i]>> \o rest.cams
                            ELSE rest.cams]

\* the listing that reads each camera's attribute directly, whatever layer
\* was asked for
ls_renderable_cameras_direct(layer, cur) ==
    RenderableFrom(Cameras, cur, cur, 1)

ls_renderable_cameras(layer, cur) ==
    RenderableFrom(Cameras, IF layer = NoLayer THEN cur ELSE layer, cur, 1)

----------------------------------------------------------------------------
(* The calls and the host's edits, as actions *)

NoCall == [op |-> "none", node |-> <<>>, attr |-> "", layer |-> NoLayer,
           nodes |-> <<>>, status |-> "ok", value |-> None, reads |-> 0,
           list |-> <<>>]

\* the query done the way the resolver exists to avoid: the asked layer is
\* made the active one and the attribute read
QueryBySwitchingLayer(node, attr, layer) ==
    LET r == query_by_renderlayer(node, attr, layer, currentRenderLayer)
    IN  /\ call' = [op |-> "query_by_renderlayer", node |-> node, attr |-> attr,
                    layer |-> layer, nodes |-> <<>>, status |-> r.status,
                    value |-> r.value, reads |-> r.reads, list |-> <<>>]
        /\ currentRenderLayer' = IF r.status = "ok" THEN layer ELSE currentRenderLayer
        /\ UNCHANGED <<renderLayers, connections, layerValue, dag, collectVars>>

\* a caller asks for an attribute's value in a layer
QueryByRenderlayer(node, attr, layer) ==
    LET r == query_by_renderlayer(node, attr, layer, currentRenderLayer)
    IN  /\ call' = [op |-> "query_by_renderlayer", node |-> node, attr |-> attr,
                    layer |-> layer, nodes |-> <<>>, status |-> r.status,
                    value |-> r.value, reads |-> r.reads, list |-> <<>>]
        /\ UNCHANGED sceneVars

\* a caller asks for the renderable cameras of a layer (or of the active one)
LsRenderableCameras(layer) ==
    LET r == ls_renderable_cameras(layer, currentRenderLayer)
    IN  /\ call' = [op |-> "ls_renderable_cameras", node |-> <<>>, attr |-> "",
                    layer |-> layer, nodes |-> <<>>, status |-> r.status,
                    value |-> None, reads |-> 0, list |-> r.cams]
        /\ UNCHANGED sceneVars

\* the artist makes another layer the active one
EditRenderLayerGlobals(layer) ==
    /\ layer # currentRenderLayer
    /\ currentRenderLayer' = layer
    /\ call' = NoCall
    /\ UNCHANGED <<renderLayers, connections, layerValue, dag, collectVars>>

\* the artist overrides an attribute in a layer: the attribute is connected to
\* that layer's adjustments and, the first time, to the default layer's, which
\* keep the value it has outside the layer
EditRenderLayerAdjustment(p, layer, i, j) ==
    /\ layer # DefaultRenderLayer
    /\ layer \notin SeqToSet(connections[p])
    /\ Cardinality(Overrides) < MaxOverrides
    /\ LET withLayer == InsertAt(connections[p], i, layer)
       IN  connections' =
               [connections EXCEPT ![p] =
                   IF DefaultRenderLayer \in SeqToSet(withLayer)
                   THEN withLayer
                   ELSE InsertAt(withLayer, j, DefaultRenderLayer)]
    /\ call' = NoCall
    /\ UNCHANGED <<renderLayers, currentRenderLayer, layerValue, dag, collectVars>>

\* the artist sets an attribute: in a layer that overrides it the override
\* changes, anywhere else the value of every layer without an override
SetAttr(p, v) ==
    /\ layerValue[p][currentRenderLayer] # v
    /\ layerValue' =
           [layerValue EXCEPT ![p] =
               IF <<currentRenderLayer, p>> \in Overrides
               THEN [@ EXCEPT ![currentRenderLayer] = v]
               ELSE [l \in LayerNames |->
                        IF <<l, p>> \in Overrides THEN @[l] ELSE v]]
    /\ call' = NoCall
    /\ UNCHANGED <<renderLayers, currentRenderLayer, connections, dag, collectVars>>

\* a dag node as created: visible, no display override
NewNode(parent, type) ==
    [parent |-> parent, type |-> type, visibility |-> TRUE,
     intermediateObject |-> FALSE, overrideEnabled |-> FALSE,
     overrideVisibility |-> TRUE]

\* two cameras under the world
CameraScene ==
    [n \in {"cam1", "cam1Shape", "cam2", "cam2Shape"} |->
        IF n = "cam1" \/ n = "cam2" THEN NewNode(World, "transform")
        ELSE IF n = "cam1Shape" THEN NewNode("cam1", "camera")
        ELSE NewNode("cam2", "camera")]

\* the value an attribute has in a new scene
DefaultValue(p) == IF p[2] = "renderable" THEN <<"bool", 0>> ELSE <<"float", 1>>

\* the attributes the artist edits while the resolver is exercised
EditedPlugs == {<<Cameras[i], "renderable">> : i \in 1..Len(Cameras)}

\* what the callers ask about: the first camera, with an attribute it has and
\* one it has not
QueryNodes == {Cameras[1]}

QueryAttrs == {"renderable", "byFrameStep"}

\* a layer as created: renderable, local, linked to the manager, no members
NewLayer(order) ==
    [displayOrder |-> order, renderable |-> TRUE, referenced |-> FALSE,
     connected |-> TRUE, members |-> <<>>]

\* CollectRenderlayers.process before it starts
Idle == [pc |-> "idle", instance_node |-> None, dummy_members |-> <<>>,
         valid_layers |-> {}, todo |-> <<>>, skipped |-> <<>>, error |-> "ok"]

\* no collection pass under way and nothing in the context
NoCollection ==
    /\ layerAttrs = [l \in SeqToSet(SceneLayers) |-> NewLayer(0)]
    /\ host = [locked |-> FALSE, sep |-> "/", renderSetup |-> FALSE]
    /\ context = [instances |-> <<>>, data |-> <<>>]
    /\ collector = Idle

ResolverInit ==
    /\ NoCollection
    /\ renderLayers = SceneLayers
    /\ currentRenderLayer = DefaultRenderLayer
    /\ dag = CameraScene
    /\ connections = [p \in EditedPlugs \cup {<<DefaultRenderGlobals, "byFrameStep">>} |-> <<>>]
    /\ layerValue = [p \in EditedPlugs \cup {<<DefaultRenderGlobals, "byFrameStep">>} |->
                        [l \in LayerNames |-> DefaultValue(p)]]
    /\ call = NoCall

ResolverNext ==
    LET edited == EditedPlugs
        nodes == QueryNodes
    IN  \/ \E node \in nodes, attr \in QueryAttrs,
              layer \in LayerNames \cup {GhostLayer} :
               QueryByRenderlayer(node, attr, layer)
        \/ \E layer \in LayerNames \cup {GhostLayer, NoLayer} :
               LsRenderableCameras(layer)
        \/ \E layer \in LayerNames : EditRenderLayerGlobals(layer)
        \/ /\ Cardinality(Overrides) < MaxOverrides
           /\ \E p \in edited : \E layer \in LayerNames \ SeqToSet(connections[p]) :
               \E i \in 1..(Len(connections[p]) + 1),
                  j \in (IF DefaultRenderLayer \in SeqToSet(connections[p])
                         THEN {1} ELSE 1..(Len(connections[p]) + 2)) :
                   EditRenderLayerAdjustment(p, layer, i, j)
        \/ \E p \in edited : \E v \in ValuesOf(AttrType(p)) : SetAttr(p, v)

SpecResolver == ResolverInit /\ [][ResolverNext]_vars

----------------------------------------------------------------------------
(* Claims about the resolver *)

IsQuery(c) == c.op = "query_by_renderlayer"

SameArgs(c, d) == c.node = d.node /\ c.attr = d.attr /\ c.layer = d.layer

CallPlug == <<call.node, call.attr>>

\* the call's attribute is overridden in layer l, with the default layer's
\* adjustments holding the fallback
OverriddenIn(l) ==
    /\ CallPlug \in Plugs
    /\ l # DefaultRenderLayer
    /\ l \in SeqToSet(connections[CallPlug])
    /\ DefaultRenderLayer \in SeqToSet(connections[CallPlug])

\* C1: a query changes neither the active layer nor the connection graph nor
\* any value, and a query repeated right after itself with the same
\* arguments returns (or raises) the same
C1_QueryReadOnly ==
    [][IsQuery(call') =>
          /\ sceneVars' = sceneVars
          /\ (IsQuery(call) /\ SameArgs(call, call')) =>
                 (call'.status = call.status /\ call'.value = call.value)]_vars

C1_Witness ==
    /\ IsQuery(call)
    /\ call.status = "ok"
    /\ call.layer # currentRenderLayer
    /\ currentRenderLayer # DefaultRenderLayer
    /\ OverriddenIn(call.layer)

\* C2: a query for a layer L that overrides the attribute, with a fallback in
\* the default layer, returns L's value, in either order of the two
\* connections and under every active layer
C2_OverridePrecedence ==
    (IsQuery(call) /\ OverriddenIn(call.layer)) =>
        (call.status = "ok" /\ call.value = layerValue[CallPlug][call.layer])

\* the default layer's connection comes first, the values differ, and another
\* layer is active
C2_Witness ==
    /\ IsQuery(call)
    /\ OverriddenIn(call.layer)
    /\ connections[CallPlug][1] = DefaultRenderLayer
    /\ call.layer # currentRenderLayer
    /\ layerValue[CallPlug][call.layer] # layerValue[CallPlug][DefaultRenderLayer]
    /\ call.value = layerValue[CallPlug][call.layer]

\* C3: a query for a layer M without an override of its own, on an attribute
\* overridden in another layer L, returns the default layer's value
C3_FallbackForOtherLayers ==
    (/\ IsQuery(call)
     /\ call.layer \in LayerNames
     /\ ~OverriddenIn(call.layer)
     /\ \E l \in LayerNames : OverriddenIn(l)) =>
        (call.status = "ok" /\ call.value = layerValue[CallPlug][DefaultRenderLayer])

\* L is the active layer, M is neither L nor the default layer, and L's value
\* is not the fallback
C3_Witness ==
    /\ IsQuery(call)
    /\ call.layer \in LayerNames \ {DefaultRenderLayer, currentRenderLayer}
    /\ ~OverriddenIn(call.layer)
    /\ OverriddenIn(currentRenderLayer)
    /\ layerValue[CallPlug][currentRenderLayer] # layerValue[CallPlug][DefaultRenderLayer]
    /\ call.value = layerValue[CallPlug][DefaultRenderLayer]

\* C4: with no adjustment connection on the attribute, a query for any layer
\* returns the attribute's direct value, which is what the query returns when
\* the queried layer is the active one
C4_NoOverridePassthrough ==
    (/\ IsQuery(call)
     /\ call.layer \in LayerNames
     /\ CallPlug \in Plugs
     /\ connections[CallPlug] = <<>>) =>
        /\ call.status = "ok"
        /\ call.value = GetAttr(CallPlug, currentRenderLayer)
        /\ call.value =
               query_by_renderlayer(call.node, call.attr, call.layer, call.layer).value

C4_Witness ==
    /\ IsQuery(call)
    /\ CallPlug \in Plugs
    /\ connections[CallPlug] = <<>>
    /\ call.layer \in LayerNames \ {currentRenderLayer}
    /\ call.value = <<"bool", 1>>

\* C5: a query raises, reads nothing and returns nothing exactly when the
\* layer is no render layer (ValueError) or the attribute does not exist
\* (AttributeError), the active layer included
C5_MissingLayerOrAttribute ==
    IsQuery(call) =>
        /\ call.status = "ValueError" <=> call.layer \notin LayerNames
        /\ call.status = "AttributeError" <=>
               (call.layer \in LayerNames /\ CallPlug \notin Plugs)
        /\ call.status \in {"ok", "ValueError", "AttributeError"}
        /\ call.status # "ok" => (call.value = None /\ call.reads = 0)
        /\ call.status = "ok" => (call.value # None /\ call.reads > 0)

\* the attribute is missing and the layer is the active one
C5_Witness ==
    /\ IsQuery(call)
    /\ call.layer = currentRenderLayer
    /\ CallPlug \notin Plugs
    /\ call.status = "AttributeError"

IsLsCameras(c) == c.op = "ls_renderable_cameras"

\* the cameras, in scene order, whose renderable attribute is true in layer l
RenderableIn(l) ==
    SelectSeq(Cameras, LAMBDA cam : layerValue[<<cam, "renderable">>][l] = <<"bool", 1>>)

\* C6: with a layer given, ls_renderable_cameras returns the cameras that are
\* renderable in that layer, and returns the same under every active layer
C6_RenderableCamerasOfLayer ==
    (IsLsCameras(call) /\ call.layer \in LayerNames) =>
        /\ call.status = "ok"
        /\ call.list = RenderableIn(call.layer)
        /\ \A cur \in LayerNames :
               ls_renderable_cameras(call.layer, cur).cams = call.list

\* one camera is renderable in the asked layer only, the other in the active
\* layer only
C6_Witness ==
    /\ IsLsCameras(call)
    /\ call.layer \in LayerNames \ {currentRenderLayer}
    /\ Len(call.list) = 1
    /\ RenderableIn(currentRenderLayer) # <<>>
    /\ SeqToSet(RenderableIn(currentRenderLayer)) \cap SeqToSet(call.list) = {}

----------------------------------------------------------------------------
(* reveries.maya.lib.is_visible *)

\* cmds.objExists(node)
ObjExists(n) == n \in Nodes

\* cmds.objectType(node, isAType=t)
IsAType(n, t) ==
    IF t = "dagNode" THEN dag[n].type # "objectSet"
    ELSE IF t = "shape" THEN dag[n].type \in {"mesh", "camera"}
    ELSE dag[n].type = t

\* is_visible with the recursion into the parent made with parentHidden off:
\* only the node and its parent are looked at
RECURSIVE is_visible_one_level(_, _, _, _, _)
is_visible_one_level(node, displayLayer, intermediateObject, parentHidden, visibility) ==
    IF ~ObjExists(node) THEN FALSE
    ELSE IF ~IsAType(node, "dagNode") THEN FALSE
    ELSE IF visibility /\ ~dag[node].visibility THEN FALSE
    ELSE IF /\ intermediateObject
            /\ IsAType(node, "shape")
            /\ dag[node].intermediateObject THEN FALSE
    ELSE IF /\ displayLayer
            /\ dag[node].overrideEnabled
            /\ ~dag[node].overrideVisibility THEN FALSE
    ELSE IF /\ parentHidden
            /\ dag[node].parent # World
            /\ ~is_visible_one_level(dag[node].parent, displayLayer, FALSE,
                                     FALSE, visibility) THEN FALSE
    ELSE TRUE

RECURSIVE is_visible(_, _, _, _, _)
is_visible(node, displayLayer, intermediateObject, parentHidden, visibility) ==
    IF ~ObjExists(node) THEN FALSE
    ELSE IF ~IsAType(node, "dagNode") THEN FALSE
    ELSE IF visibility /\ ~dag[node].visibility THEN FALSE
    ELSE IF /\ intermediateObject
            /\ IsAType(node, "shape")
            /\ dag[node].intermediateObject THEN FALSE
    ELSE IF /\ displayLayer
            /\ dag[node].overrideEnabled
            /\ ~dag[node].overrideVisibility THEN FALSE
    ELSE IF /\ parentHidden
            /\ dag[node].parent # World
            /\ ~is_visible(dag[node].parent, displayLayer, FALSE,
                           parentHidden, visibility) THEN FALSE
    ELSE TRUE

\* ValidateJointsHidden.get_invalid over the joints of the scene
get_invalid ==
    LET joints == SelectSeq(NodeOrder, LAMBDA n : n \in Nodes /\ dag[n].type = "joint")
        invalid == SelectSeq(joints, LAMBDA j : is_visible(j, TRUE, TRUE, TRUE, TRUE))
    IN  [i \in 1..Len(invalid) |-> LongName(invalid[i])]

Bool(b) == <<"bool", IF b THEN 1 ELSE 0>>

\* a caller asks whether a node is visible, every check at its default
IsVisible(n) ==
    /\ call' = [NoCall EXCEPT !.op = "is_visible", !.node = <<n>>,
                              !.value = Bool(is_visible(n, TRUE, TRUE, TRUE, TRUE))]
    /\ UNCHANGED sceneVars

\* ValidateJointsHidden.process
ValidateJointsHidden ==
    /\ call' = [NoCall EXCEPT !.op = "ValidateJointsHidden",
                              !.status = IF get_invalid # <<>> THEN "ValueError"
                                         ELSE "ok",
                              !.list = get_invalid]
    /\ UNCHANGED sceneVars

\* the display attributes of a node: those of every dag node
DisplayAttrs(n) ==
    IF dag[n].type = "objectSet" THEN {}
    ELSE {"visibility", "overrideEnabled", "overrideVisibility",
          "intermediateObject"}

\* the display attributes that are not as in a new node
Edited ==
    {na \in Nodes \X {"visibility", "overrideEnabled", "overrideVisibility",
                      "intermediateObject"} :
        dag[na[1]][na[2]] # NewNode(World, "transform")[na[2]]}

\* the artist flips a display attribute of a node
ToggleDisplayAttr(n, a) ==
    /\ a \in DisplayAttrs(n)
    /\ dag' = [dag EXCEPT ![n][a] = ~@]
    /\ call' = NoCall
    /\ UNCHANGED <<layerVars, collectVars>>

\* a group over a transform that holds a mesh and a chain of two joints, and a
\* set beside them
VisibilityScene ==
    [n \in {"ROOT", "A", "AShape", "B", "C", "set1"} |->
        IF n = "ROOT" THEN NewNode(World, "transform")
        ELSE IF n = "A" THEN NewNode("ROOT", "transform")
        ELSE IF n = "AShape" THEN NewNode("A", "mesh")
        ELSE IF n = "B" THEN NewNode("A", "joint")
        ELSE IF n = "C" THEN NewNode("B", "joint")
        ELSE NewNode(World, "objectSet")]

\* a scene without render-layer overrides
PlainLayers ==
    /\ renderLayers = SceneLayers
    /\ currentRenderLayer = DefaultRenderLayer
    /\ connections = <<>>
    /\ layerValue = <<>>

VisibilityInit ==
    /\ PlainLayers
    /\ NoCollection
    /\ dag = VisibilityScene
    /\ call = NoCall

VisibilityNext ==
    \/ \E n \in Nodes \cup {GhostNode} : IsVisible(n)
    \/ ValidateJointsHidden
    \/ \E n \in Nodes, a \in {"visibility", "overrideEnabled", "overrideVisibility",
                             "intermediateObject"} :
           /\ Cardinality(Edited \cup {<<n, a>>}) <= MaxEdits
           /\ ToggleDisplayAttr(n, a)

SpecVisibility == VisibilityInit /\ [][VisibilityNext]_vars

\* the nodes above n, from its parent up to the top
RECURSIVE AncestorsOf(_)
AncestorsOf(n) ==
    IF dag[n].parent = World THEN {}
    ELSE {dag[n].parent} \cup AncestorsOf(dag[n].parent)

\* the checks on the node asked about: it exists, is a dag node, its
\* visibility is on, it is no shape flagged intermediate and no display
\* override hides it
VisibleItself(n) ==
    /\ n \in Nodes
    /\ dag[n].type # "objectSet"
    /\ dag[n].visibility
    /\ ~(dag[n].type \in {"mesh", "camera"} /\ dag[n].intermediateObject)
    /\ ~(dag[n].overrideEnabled /\ ~dag[n].overrideVisibility)

\* the checks on an ancestor: as on the node, the intermediate flag left out
VisibleAsAncestor(a) ==
    /\ dag[a].visibility
    /\ ~(dag[a].overrideEnabled /\ ~dag[a].overrideVisibility)

\* the rule of the claim as it stands, for the node and for an ancestor alike:
\* not flagged intermediate, whatever the node is
VisibleByTheRule(n) ==
    /\ n \in Nodes
    /\ dag[n].type # "objectSet"
    /\ dag[n].visibility
    /\ ~dag[n].intermediateObject
    /\ ~(dag[n].overrideEnabled /\ ~dag[n].overrideVisibility)

----------------------------------------------------------------------------
(* reveries.maya.lib.get_highest_in_hierarchy *)

\* lib.iter_uri(path, "|"): the path cut at its last "|", then that cut at its
\* last "|", and so on up to the empty path
RECURSIVE iter_uri(_)
iter_uri(path) ==
    IF "|" \notin SeqToSet(path) THEN <<>>
    ELSE LET k == CHOOSE i \in 1..Len(path) :
                      path[i] = "|" /\ \A j \in (i + 1)..Len(path) : path[j] # "|"
             head == SubSeq(path, 1, k - 1)
         IN  <<head>> \o iter_uri(head)

\* cmds.ls(nodes, long=True)
LsLong(nodes) == [i \in 1..Len(nodes) |-> LongName(nodes[i])]

\* the filter with only the parent of each node looked up
get_highest_by_parent(nodes) ==
    LET long == LsLong(nodes)
        lookup == SeqToSet(long)
    IN  SelectSeq(long, LAMBDA node :
            iter_uri(node) = <<>> \/ iter_uri(node)[1] \notin lookup)

get_highest_in_hierarchy(nodes) ==
    LET long == LsLong(nodes)
        lookup == SeqToSet(long)
    IN  SelectSeq(long, LAMBDA node :
            ~\E i \in 1..Len(iter_uri(node)) : iter_uri(node)[i] \in lookup)

\* a caller asks for the highest of some nodes of the scene
GetHighestInHierarchy(nodes) ==
    /\ call' = [NoCall EXCEPT !.op = "get_highest_in_hierarchy",
                              !.nodes = nodes,
                              !.list = get_highest_in_hierarchy(nodes)]
    /\ UNCHANGED sceneVars

\* RigLoader.process_reference: the interface of a loaded rig is the highest
\* of its transforms, then its sets
ProcessReference ==
    LET transforms == SelectSeq(NodeOrder, LAMBDA n :
                          n \in Nodes /\ dag[n].type = "transform")
        sets == SelectSeq(NodeOrder, LAMBDA n :
                          n \in Nodes /\ dag[n].type = "objectSet")
    IN  /\ call' = [NoCall EXCEPT !.op = "process_reference",
                                  !.nodes = transforms,
                                  !.list = get_highest_in_hierarchy(transforms)
                                               \o [i \in 1..Len(sets) |-> <<sets[i]>>]]
        /\ UNCHANGED sceneVars

\* cmds.parent(node, parent): a node is moved under another node that is not
\* below it, or under the world
Parent(n, newParent) ==
    /\ dag[n].parent # newParent
    /\ newParent # n
    /\ newParent = World \/
           (/\ newParent \in Nodes
            /\ dag[newParent].type = "transform"
            /\ n \notin AncestorsOf(newParent))
    /\ dag' = [dag EXCEPT ![n].parent = newParent]
    /\ call' = NoCall
    /\ UNCHANGED <<layerVars, collectVars>>

\* four transforms under the world and a set
HierarchyScene ==
    [n \in {"ROOT", "A", "B", "C", "set1"} |->
        IF n = "set1" THEN NewNode(World, "objectSet")
        ELSE NewNode(World, "transform")]

\* the lists of at most k different members of S
RECURSIVE ListsOf(_, _)
ListsOf(S, k) ==
    IF k = 0 THEN {<<>>}
    ELSE LET shorter == ListsOf(S, k - 1)
         IN  shorter \cup {Append(l, x) : l \in shorter, x \in S}

DistinctListsOf(S, k) ==
    {l \in ListsOf(S, k) : Cardinality(SeqToSet(l)) = Len(l)}

HierarchyInit ==
    /\ PlainLayers
    /\ NoCollection
    /\ dag = HierarchyScene
    /\ call = NoCall

HierarchyNext ==
    \/ \E nodes \in DistinctListsOf({n \in Nodes : dag[n].type = "transform"},
                                    MaxInput) \ {<<>>} :
           GetHighestInHierarchy(nodes)
    \/ ProcessReference
    \/ \E n \in {m \in Nodes : dag[m].type = "transform"},
          newParent \in Nodes \cup {World} : Parent(n, newParent)

SpecHierarchy == HierarchyInit /\ [][HierarchyNext]_vars

\* the given nodes that have none of the given nodes above them
Highest(nodes) ==
    SelectSeq(nodes, LAMBDA n : AncestorsOf(n) \cap SeqToSet(nodes) = {})

\* C8: get_highest_in_hierarchy returns, in input order, the given nodes with
\* no ancestor among the given nodes; no returned node lies below a given
\* node, and every given node is returned or lies below a returned one
C8_HighestAreMinimalRoots ==
    call.op = "get_highest_in_hierarchy" =>
        /\ call.list = LsLong(Highest(call.nodes))
        /\ \A i \in 1..Len(call.list) :
               \E n \in SeqToSet(call.nodes) :
                   /\ LongName(n) = call.list[i]
                   /\ AncestorsOf(n) \cap SeqToSet(call.nodes) = {}
        /\ \A n \in SeqToSet(call.nodes) :
               \E m \in {n} \cup AncestorsOf(n) :
                   m \in SeqToSet(call.nodes) /\ LongName(m) \in SeqToSet(call.list)

\* a node is given with its grandparent and without its parent, and is left
\* out of the result
C8_Witness ==
    /\ call.op = "get_highest_in_hierarchy"
    /\ \E n \in SeqToSet(call.nodes) :
           /\ dag[n].parent # World
           /\ dag[n].parent \notin SeqToSet(call.nodes)
           /\ AncestorsOf(n) \cap SeqToSet(call.nodes) # {}
           /\ LongName(n) \notin SeqToSet(call.list)
    /\ Len(call.list) = 2

----------------------------------------------------------------------------
(* plugins/maya/publish/collect_renderlayers.py: the scene queries it makes *)

\* the node a name stands for: the last part of its path
NodeOf(name) == name[Len(name)]

\* cmds.listRelatives(names, allDescendents=True): the names of every node
\* below one of the named nodes; the empty list stands for the None the host
\* returns when there is none
ListRelativesAllDescendents(names) ==
    LET ids == {NodeOf(names[i]) : i \in 1..Len(names)}
        below == SelectSeq(NodeOrder, LAMBDA n :
                     n \in Nodes /\ AncestorsOf(n) \cap ids # {})
    IN  [i \in 1..Len(below) |-> <<below[i]>>]

\* whether a listRelatives result is None
IsNone(found) == found = <<>>

\* cmds.ls(names, type=t, long=True), with noIntermediate or without
LsOfType(names, t, noIntermediate) ==
    LET ids == {NodeOf(names[i]) : i \in 1..Len(names)}
    IN  LsLong(SelectSeq(NodeOrder, LAMBDA n :
            /\ n \in ids \cap Nodes
            /\ dag[n].type = t
            /\ noIntermediate => ~dag[n].intermediateObject))

\* cmds.listRelatives(names, parent=True, fullPath=True)
ListRelativesParent(names) ==
    LET ids == {NodeOf(names[i]) : i \in 1..Len(names)}
    IN  LsLong(SelectSeq(NodeOrder, LAMBDA n :
            \E m \in ids \cap Nodes : dag[m].parent = n))

----------------------------------------------------------------------------
(* dictionaries *)

Put(d, k, v) == [x \in DOMAIN d \cup {k} |-> IF x = k THEN v ELSE d[x]]

Update(d, e) ==
    [x \in DOMAIN d \cup DOMAIN e |-> IF x \in DOMAIN e THEN e[x] ELSE d[x]]

Str(tokens) == <<"str", tokens>>

----------------------------------------------------------------------------
(* the helpers of other modules of the package *)

\* reveries.maya.utils.compose_render_filename(layer, aov): the file name
\* template of a layer's channel, ending in the image extension
compose_render_filename(layer, aov) ==
    layer \o (IF aov = <<>> THEN <<>> ELSE <<"_">> \o aov) \o <<".####", ".exr">>

\* reveries.maya.utils.get_render_filename_prefix(layer)
get_render_filename_prefix(layer) == <<"<Scene>", "/", "<RenderLayer>">>

\* os.path.splitext(name)[-1]
SplitExt(name) == <<name[Len(name)]>>

\* reveries.maya.vray.utils.get_vray_element_names(layer)
get_vray_element_names(layer) == <<<<"diffuse">>>>

\* reveries.maya.arnold.utils.get_arnold_aov_names(layer)
get_arnold_aov_names(layer) == <<<<"diffuse">>, <<"specular">>>>

\* os.path.join(a, b)
PathJoin(a, b) == a \o <<host.sep>> \o b

\* s.replace("\\", "/")
ReplaceBackslash(s) == [i \in 1..Len(s) |-> IF s[i] = "\\" THEN "/" ELSE s[i]]

----------------------------------------------------------------------------
(* publish_on_lock, set_extraction_type, collect_output_paths *)

\* the gate with the test of the lock the wrong way round
publish_when_locked(data) ==
    IF host.locked
    THEN Put(Put(data, "optional", Bool(FALSE)), "publish", Bool(FALSE))
    ELSE data

publish_on_lock(data) ==
    IF ~host.locked
    THEN Put(Put(data, "optional", Bool(FALSE)), "publish", Bool(FALSE))
    ELSE data

set_extraction_type(data) ==
    IF Len(data["outputPaths"]) > 1
    THEN Put(data, "extractType", Str(<<"imageSequenceSet">>))
    ELSE Put(data, "extractType", Str(<<"imageSequence">>))

\* paths[k] = v on an OrderedDict, kept as a sequence of <<key, value>>: a new
\* key goes last, a key already there keeps its place and takes the value
OrderedPut(paths, k, v) ==
    IF \E i \in 1..Len(paths) : paths[i][1] = k
    THEN [i \in 1..Len(paths) |-> IF paths[i][1] = k THEN <<k, v>> ELSE paths[i]]
    ELSE Append(paths, <<k, v>>)

\* the loop of lines 185-192 from the i-th channel on
RECURSIVE ComposePaths(_, _, _, _, _)
ComposePaths(paths, aov_names, i, layer, output_dir) ==
    IF i > Len(aov_names) THEN paths
    ELSE ComposePaths(
             OrderedPut(paths, aov_names[i],
                        ReplaceBackslash(output_dir \o <<"/">>
                            \o compose_render_filename(layer, aov_names[i]))),
             aov_names, i + 1, layer, output_dir)

\* collect_output_paths without the primary channel appended
collect_output_paths_no_primary(data, outputDir) ==
    LET renderer == data["renderer"]
        layer == data["renderlayer"]
        aov_names ==
            IF renderer = Str(<<"vray">>) THEN get_vray_element_names(layer)
            ELSE IF renderer = Str(<<"arnold">>) THEN get_arnold_aov_names(layer)
            ELSE <<>>
    IN  Put(data, "outputPaths", ComposePaths(<<>>, aov_names, 1, layer, outputDir))

\* collect_output_paths with the paths kept as the host composed them
collect_output_paths_raw(data, outputDir) ==
    LET renderer == data["renderer"]
        layer == data["renderlayer"]
        aov_names ==
            (IF renderer = Str(<<"vray">>) THEN get_vray_element_names(layer)
             ELSE IF renderer = Str(<<"arnold">>) THEN get_arnold_aov_names(layer)
             ELSE <<>>) \o <<<<>>>>
    IN  Put(data, "outputPaths",
            [i \in 1..Len(aov_names) |->
                <<aov_names[i],
                  outputDir \o <<"/">> \o compose_render_filename(layer, aov_names[i])>>])

\* the ordered mapping channel -> path
collect_output_paths(data, outputDir) ==
    LET renderer == data["renderer"]
        layer == data["renderlayer"]
        aov_names ==
            (IF renderer = Str(<<"vray">>) THEN get_vray_element_names(layer)
             ELSE IF renderer = Str(<<"arnold">>) THEN get_arnold_aov_names(layer)
             ELSE <<>>) \o <<<<>>>>
    IN  Put(data, "outputPaths", ComposePaths(<<>>, aov_names, 1, layer, outputDir))

----------------------------------------------------------------------------
(* process_playblast, process_turntable, process_batchrender *)

\* what a step of the pass leaves: the instance as far as it got, and the
\* exception that ended it, if any
Done(inst) == [status |-> "ok", inst |-> inst]

Failed(e, inst) == [status |-> e, inst |-> inst]

\* the contractor keys, set when deadlineEnable is true
AssignContractor(data, route) ==
    IF Truthy(data["deadlineEnable"])
    THEN Put(Put(data, "useContractor", Bool(TRUE)), "publishContractor", Str(<<route>>))
    ELSE data

process_playblast(inst, layer, cur) ==
    LET d1 == Put(Put(inst.data, "families", <<"reveries.imgseq.playblast">>),
                  "category", <<"Playblast">>)
        d2 == AssignContractor(publish_on_lock(d1), "deadline.maya.script")
        below == ListRelativesAllDescendents(inst.members)
    IN  IF IsNone(below)
        THEN Failed("TypeError", [inst EXCEPT !.data = d2])
        ELSE Done([inst EXCEPT !.data =
                      Put(d2, "renderCam",
                          LsOfType(inst.members \o below, "camera", FALSE))])

\* every camera of the instance's hierarchy, renderable in the layer or not
RenderCamerasOfHierarchy(inst, d, layer, cur, outputDir) ==
    LET below == ListRelativesAllDescendents(inst.members)
        renderable == ls_renderable_cameras(layer, cur)
    IN  IF IsNone(below)
        THEN Failed("TypeError", [inst EXCEPT !.data = d])
        ELSE IF renderable.status # "ok"
        THEN Failed(renderable.status, [inst EXCEPT !.data = d])
        ELSE LET instance_cam == LsOfType(inst.members \o below, "camera", FALSE)
             IN  Done([inst EXCEPT !.data =
                          set_extraction_type(
                              collect_output_paths(Put(d, "renderCam", instance_cam),
                                                   outputDir))])

\* the cameras of the instance's hierarchy that are renderable in the layer,
\* then the output paths and the extraction type
RenderCameras(inst, d, layer, cur, outputDir) ==
    LET below == ListRelativesAllDescendents(inst.members)
        renderable == ls_renderable_cameras(layer, cur)
    IN  IF IsNone(below)
        THEN Failed("TypeError", [inst EXCEPT !.data = d])
        ELSE IF renderable.status # "ok"
        THEN Failed(renderable.status, [inst EXCEPT !.data = d])
        ELSE LET instance_cam == LsOfType(inst.members \o below, "camera", FALSE)
                 render_cam == SelectSeq(instance_cam, LAMBDA c :
                                   c \in SeqToSet(renderable.cams))
             IN  Done([inst EXCEPT !.data =
                          set_extraction_type(
                              collect_output_paths(Put(d, "renderCam", render_cam),
                                                   outputDir))])

process_turntable(inst, layer, cur, outputDir) ==
    LET d1 == Put(inst.data, "subset",
                  Str(inst.data["subset"][2] \o <<".">> \o inst.name))
        d2 == Put(Put(d1, "families", <<"reveries.imgseq.turntable">>),
                  "category", <<"Turntable: ">> \o d1["renderer"][2])
        d3 == AssignContractor(publish_on_lock(d2), "deadline.maya.render")
    IN  RenderCameras(inst, d3, layer, cur, outputDir)

\* the batchrender variant with the lock gate of the other two
process_batchrender_gated(inst, layer, cur, outputDir) ==
    LET d1 == Put(inst.data, "subset",
                  Str(inst.data["subset"][2] \o <<".">> \o inst.name))
        d2 == Put(Put(d1, "families", <<"reveries.imgseq.batchrender">>),
                  "category", <<"Render: ">> \o d1["renderer"][2])
        d3 == AssignContractor(publish_on_lock(d2), "deadline.maya.render")
    IN  RenderCameras(inst, d3, layer, cur, outputDir)

process_batchrender(inst, layer, cur, outputDir) ==
    LET d1 == Put(inst.data, "subset",
                  Str(inst.data["subset"][2] \o <<".">> \o inst.name))
        d2 == Put(Put(d1, "families", <<"reveries.imgseq.batchrender">>),
                  "category", <<"Render: ">> \o d1["renderer"][2])
        d3 == AssignContractor(d2, "deadline.maya.render")
    IN  RenderCameras(inst, d3, layer, cur, outputDir)

----------------------------------------------------------------------------
(* CollectRenderlayers.process *)

InstanceNode == <<"imgseqSet">>

pipeline_attrs == <<"asset", "subset", "renderType", "deadlineEnable",
                    "deadlinePool", "deadlineGroup", "deadlinePriority">>

render_attrs == <<"currentRenderer", "startFrame", "endFrame", "byFrameStep">>

EndsWith(s, suffix) ==
    /\ Len(suffix) <= Len(s)
    /\ SubSeq(s, Len(s) - Len(suffix) + 1, Len(s)) = suffix

\* the layers in their given order
unsorted(layers) == layers

\* sorted(layers, key=displayOrder): ascending, equal keys in their given order
RECURSIVE sorted_by_displayOrder(_)
sorted_by_displayOrder(layers) ==
    IF layers = <<>> THEN <<>>
    ELSE LET last == layers[Len(layers)]
             front == sorted_by_displayOrder(SubSeq(layers, 1, Len(layers) - 1))
             keep == SelectSeq(front, LAMBDA l :
                         layerAttrs[l].displayOrder <= layerAttrs[last].displayOrder)
             move == SelectSeq(front, LAMBDA l :
                         layerAttrs[l].displayOrder > layerAttrs[last].displayOrder)
         IN  keep \o <<last>> \o move

\* set(cmds.listConnections("renderLayerManager.renderLayerId") or [])
valid_layers_all == LayerNames

valid_layers == {l \in LayerNames : layerAttrs[l].connected}

\* the layers that are renderable and not referenced, as cmds.ls lists them
renderlayers ==
    SelectSeq(renderLayers, LAMBDA l :
        layerAttrs[l].renderable /\ ~layerAttrs[l].referenced)

\* the first exception among the results of some queries, or "ok"
FirstError(results) ==
    LET bad == SelectSeq(results, LAMBDA r : r.status # "ok")
    IN  IF bad = <<>> THEN "ok" ELSE bad[1].status

\* lines 107-144 for one linked layer: the instance, created, filled and handed
\* to its variant
CreateInstance(instance_node, layer, cur, dummy_members, outputDir) ==
    LET layername == IF EndsWith(layer, <<"defaultRenderLayer">>)
                     THEN <<"masterLayer">> ELSE layer
        render == [i \in 1..Len(render_attrs) |->
                      query_by_renderlayer(DefaultRenderGlobals, render_attrs[i],
                                           layer, cur)]
        pipeline == [i \in 1..Len(pipeline_attrs) |->
                        query_by_renderlayer(instance_node, pipeline_attrs[i],
                                             layer, cur)]
        data == [k \in {"renderlayer", "startFrame", "endFrame", "byFrameStep",
                        "renderer", "fileNamePrefix", "fileExt"} |->
                    IF k = "renderlayer" THEN layer
                    ELSE IF k = "renderer" THEN render[1].value
                    ELSE IF k = "startFrame" THEN render[2].value
                    ELSE IF k = "endFrame" THEN render[3].value
                    ELSE IF k = "byFrameStep" THEN render[4].value
                    ELSE IF k = "fileNamePrefix" THEN get_render_filename_prefix(layer)
                    ELSE SplitExt(compose_render_filename(layer, <<>>))]
        attrs == [k \in SeqToSet(pipeline_attrs) |->
                     pipeline[IndexOf(pipeline_attrs, k, 1)].value]
        created == [name |-> layername,
                    members |-> dummy_members,
                    data |-> Update(Update(data, attrs),
                                 [k \in {"dependencies", "futureDependencies",
                                         "_privilege_on_lock", "family", "families"} |->
                                     IF k = "_privilege_on_lock" THEN Bool(TRUE)
                                     ELSE IF k = "family" THEN "reveries.imgseq"
                                     ELSE <<>>])]
        renderType == created.data["renderType"]
    IN  IF FirstError(render \o pipeline) # "ok"
        THEN [status |-> FirstError(render \o pipeline), created |-> FALSE,
              inst |-> created]
        ELSE IF renderType = Str(<<"playblast">>)
        THEN process_playblast(created, layer, cur) @@ [created |-> TRUE]
        ELSE IF renderType = Str(<<"turntable">>)
        THEN process_turntable(created, layer, cur, outputDir) @@ [created |-> TRUE]
        ELSE IF renderType = Str(<<"batchrender">>)
        THEN process_batchrender(created, layer, cur, outputDir) @@ [created |-> TRUE]
        ELSE [status |-> "AttributeError", created |-> TRUE, inst |-> created]

\* lines 146-162: the layer's members, their meshes, and the meshes' transforms
\* added to the instance
\* the members replaced by the transforms instead of extended by them
CollectMembersReplacing(inst, layer) ==
    LET members == layerAttrs[layer].members
        descendent == ListRelativesAllDescendents(members)
        meshes == LsOfType(members \o descendent, "mesh", TRUE)
    IN  [inst EXCEPT !.members = ListRelativesParent(meshes),
                     !.data = Put(@, "renderLayerMember",
                                  LsLong([i \in 1..Len(members) |->
                                             NodeOf(members[i])]))]

CollectMembers(inst, layer) ==
    LET members == layerAttrs[layer].members
        descendent == ListRelativesAllDescendents(members)
        meshes == LsOfType(members \o descendent, "mesh", TRUE)
        transforms == ListRelativesParent(meshes)
    IN  [inst EXCEPT !.members = @ \o transforms,
                     !.data = Put(@, "renderLayerMember",
                                  LsLong([i \in 1..Len(members) |->
                                             NodeOf(members[i])]))]

\* lines 58-98: the placeholder instances leave the context, the context data
\* is set, and the renderable local layers are put in display order
Begin ==
    /\ collector.pc = "idle"
    /\ LET dummies == SelectSeq(context.instances, LAMBDA i :
                          i.data["family"] = "reveries.imgseq")
           others == SelectSeq(context.instances, LAMBDA i :
                          i.data["family"] # "reveries.imgseq")
       IN  IF dummies = <<>>
           THEN /\ collector' = [collector EXCEPT !.pc = "failed",
                                                  !.error = "AssertionError"]
                /\ context' = context
           ELSE /\ context' =
                       [instances |-> others,
                        data |-> Update(context.data,
                            [k \in {"outputDir", "_has_privileged_instance",
                                    "hasRenderLayers", "usingRenderSetup"} |->
                                IF k = "outputDir"
                                THEN PathJoin(context.data["workspaceDir"], <<"renders">>)
                                ELSE IF k = "hasRenderLayers"
                                THEN Bool(Cardinality(valid_layers) > 1)
                                ELSE IF k = "usingRenderSetup"
                                THEN Bool(/\ 2 * context.data["mayaVersion"] >= 4033
                                          /\ host.renderSetup)
                                ELSE Bool(TRUE)])]
                /\ collector' =
                       [collector EXCEPT
                           !.pc = "loop",
                           !.instance_node = dummies[Len(dummies)].data["objectName"],
                           !.dummy_members = dummies[Len(dummies)].members,
                           !.valid_layers = valid_layers,
                           !.todo = sorted_by_displayOrder(renderlayers)]
    /\ call' = NoCall
    /\ UNCHANGED <<layerVars, dag, layerAttrs, host>>

\* the turn of the loop that skips a layer whose processing raised and goes on
\* with the next
ProcessLayerSkipping ==
    /\ collector.pc = "loop"
    /\ collector.todo # <<>>
    /\ LET layer == collector.todo[1]
           r == CreateInstance(collector.instance_node, layer, currentRenderLayer,
                               collector.dummy_members,
                               context.data["outputDir"])
       IN  IF layer \notin collector.valid_layers \/ r.status # "ok"
           THEN /\ context' = context
                /\ collector' = [collector EXCEPT !.todo = Tail(@),
                                                  !.skipped = Append(@, layer)]
           ELSE /\ context' = [context EXCEPT !.instances =
                                  Append(@, CollectMembers(r.inst, layer))]
                /\ collector' = [collector EXCEPT !.todo = Tail(@)]
    /\ call' = NoCall
    /\ UNCHANGED <<layerVars, dag, layerAttrs, host>>

\* one turn of the loop over the layers: a layer that is not linked to the
\* manager is skipped; for any other the instance is created, and an exception
\* ends the pass with the instance left in the context as far as it got
ProcessLayer ==
    /\ collector.pc = "loop"
    /\ collector.todo # <<>>
    /\ LET layer == collector.todo[1]
           r == CreateInstance(collector.instance_node, layer, currentRenderLayer,
                               collector.dummy_members,
                               context.data["outputDir"])
       IN  IF layer \notin collector.valid_layers
           THEN /\ context' = context
                /\ collector' = [collector EXCEPT !.todo = Tail(@),
                                                  !.skipped = Append(@, layer)]
           ELSE IF r.status # "ok"
           THEN /\ context' = [context EXCEPT !.instances =
                                  IF r.created THEN Append(@, r.inst) ELSE @]
                /\ collector' = [collector EXCEPT !.pc = "failed",
                                                  !.error = r.status]
           ELSE /\ context' = [context EXCEPT !.instances =
                                  Append(@, CollectMembers(r.inst, layer))]
                /\ collector' = [collector EXCEPT !.todo = Tail(@)]
    /\ call' = NoCall
    /\ UNCHANGED <<layerVars, dag, layerAttrs, host>>

\* the loop is over and process returns
Finish ==
    /\ collector.pc = "loop"
    /\ collector.todo = <<>>
    /\ collector' = [collector EXCEPT !.pc = "done"]
    /\ call' = NoCall
    /\ UNCHANGED <<layerVars, dag, layerAttrs, host, context>>

----------------------------------------------------------------------------
(* the scenes the collector is run on *)

\* a rig with a deformed mesh, two cameras and the set of the image sequence
CollectScene ==
    [n \in {"ROOT", "A", "AShape", "AShapeOrig", "cam1", "cam1Shape",
            "cam2", "cam2Shape", "imgseqSet"} |->
        IF n = "ROOT" \/ n = "cam1" \/ n = "cam2" THEN NewNode(World, "transform")
        ELSE IF n = "A" THEN NewNode("ROOT", "transform")
        ELSE IF n = "AShape" THEN NewNode("A", "mesh")
        ELSE IF n = "AShapeOrig"
        THEN [NewNode("A", "mesh") EXCEPT !.intermediateObject = TRUE]
        ELSE IF n = "cam1Shape" THEN NewNode("cam1", "camera")
        ELSE IF n = "cam2Shape" THEN NewNode("cam2", "camera")
        ELSE NewNode(World, "objectSet")]

RenderTypes == {"playblast", "turntable", "batchrender", "custom"}

\* the camera shapes, by the long names cmds.ls(type="camera", long=True) gives
Cam1Shape == <<"|", "cam1", "|", "cam1Shape">>

Cam2Shape == <<"|", "cam2", "|", "cam2Shape">>

\* the attributes the collector reads
CollectPlugs ==
    {<<DefaultRenderGlobals, render_attrs[i]>> : i \in 1..Len(render_attrs)}
        \cup {<<InstanceNode, pipeline_attrs[i]>> : i \in 1..Len(pipeline_attrs)}
        \cup {<<Cam1Shape, "renderable">>, <<Cam2Shape, "renderable">>}

\* the layer that overrides an attribute in the scene, if any
OverridingLayer(p) ==
    IF p = <<DefaultRenderGlobals, "currentRenderer">> THEN Layer1
    ELSE IF p = <<InstanceNode, "deadlineEnable">> THEN Layer1
    ELSE IF p = <<Cam2Shape, "renderable">> THEN Layer2
    ELSE NoLayer

\* the value of an attribute of the scene in a layer
SceneValue(p, layer, renderType) ==
    LET overridden == layer = OverridingLayer(p)
    IN  IF p[2] = "currentRenderer"
        THEN Str(IF overridden THEN <<"vray">> ELSE <<"arnold">>)
        ELSE IF p[2] = "renderType" THEN Str(<<renderType>>)
        ELSE IF p[2] = "asset" THEN Str(<<"hero">>)
        ELSE IF p[2] = "subset" THEN Str(<<"imgseqDefault">>)
        ELSE IF p[2] \in {"deadlinePool", "deadlineGroup"} THEN Str(<<"none">>)
        ELSE IF p[2] = "deadlineEnable"
        THEN <<"bool", IF overridden THEN 1 ELSE 0>>
        ELSE IF p[2] = "deadlinePriority" THEN <<"long", 2>>
        ELSE IF p[2] = "endFrame" THEN <<"float", 2>>
        ELSE IF p[2] = "renderable"
        THEN <<"bool", IF overridden \/ p[1] = Cam1Shape THEN 1 ELSE 0>>
        ELSE <<"float", 1>>

\* the placeholder instance the creator plugin left in the context
DummyInstance(members) ==
    [name |-> <<"imgseqDefault">>, members |-> members,
     data |-> [family |-> "reveries.imgseq", objectName |-> InstanceNode]]

\* an instance of another family
OtherInstance ==
    [name |-> <<"modelDefault">>, members |-> <<<<"ROOT">>>>,
     data |-> [family |-> "reveries.model"]]

\* the states of a layer other than the default one
LayerStates ==
    {[NewLayer(0) EXCEPT !.connected = c, !.renderable = r, !.referenced = f] :
        c \in BOOLEAN, r \in BOOLEAN, f \in BOOLEAN}

CollectInit ==
    /\ renderLayers = SceneLayers
    /\ currentRenderLayer = Layer1
    /\ dag = CollectScene
    /\ connections = [p \in CollectPlugs |->
                         IF OverridingLayer(p) = NoLayer THEN <<>>
                         ELSE <<OverridingLayer(p), DefaultRenderLayer>>]
    /\ \E renderType \in RenderTypes :
           layerValue = [p \in CollectPlugs |->
                            [l \in LayerNames |-> SceneValue(p, l, renderType)]]
    /\ \E order \in [LayerNames -> 0..MaxDisplayOrder],
          masterRenderable \in BOOLEAN,
          state1 \in LayerStates, state2 \in LayerStates :
           layerAttrs =
               [l \in LayerNames |->
                   [(IF l = DefaultRenderLayer
                     THEN [NewLayer(0) EXCEPT !.renderable = masterRenderable]
                     ELSE IF l = Layer1 THEN state1 ELSE state2)
                    EXCEPT !.displayOrder = order[l],
                           !.members = IF l = Layer2 THEN <<>>
                                       ELSE <<<<"A">>, <<"cam1">>>>]]
    /\ host = [locked |-> FALSE, sep |-> "/", renderSetup |-> FALSE]
    /\ \E instances \in {<<OtherInstance>>,
                          <<OtherInstance, DummyInstance(<<<<"cam1">>, <<"cam2">>>>)>>,
                          <<DummyInstance(<<<<"cam1Shape">>>>), OtherInstance>>} :
           context = [instances |-> instances,
                      data |-> [workspaceDir |-> <<"proj">>, mayaVersion |-> 2017]]
    /\ collector = Idle
    /\ call = NoCall

CollectNext ==
    \/ Begin
    \/ ProcessLayer
    \/ Finish

SpecCollect == CollectInit /\ [][CollectNext]_vars

----------------------------------------------------------------------------
(* C9, C10 *)

\* the instances the pass has created, in the order of the context
Created == SelectSeq(context.instances, LAMBDA i : "renderlayer" \in DOMAIN i.data)

DisplayOrder(inst) == layerAttrs[inst.data["renderlayer"]].displayOrder

\* the position of an instance's layer in the scene's enumeration of layers
Enumerated(inst) == IndexOf(renderLayers, inst.data["renderlayer"], 1)

\* C9: in one collection pass the instances are created in ascending order of
\* their layers' displayOrder, and the instances of layers with the same
\* displayOrder are created in the order in which the scene enumerates the
\* layers
C9_InstancesInDisplayOrder ==
    \A i, j \in 1..Len(Created) :
        i < j =>
            \/ DisplayOrder(Created[i]) < DisplayOrder(Created[j])
            \/ /\ DisplayOrder(Created[i]) = DisplayOrder(Created[j])
               /\ Enumerated(Created[i]) < Enumerated(Created[j])

\* a pass that came to its end with three instances, the layers enumerated
\* with the display orders 2, 0, 1
C9_Witness ==
    /\ collector.pc = "done"
    /\ Len(Created) = 3
    /\ layerAttrs[renderLayers[1]].displayOrder = 2
    /\ layerAttrs[renderLayers[2]].displayOrder = 0
    /\ layerAttrs[renderLayers[3]].displayOrder = 1
    /\ Created[1].data["renderlayer"] = renderLayers[2]
    /\ Created[2].data["renderlayer"] = renderLayers[3]
    /\ Created[3].data["renderlayer"] = renderLayers[1]

\* a layer gets an instance when it is linked to the manager, renderable and
\* local
Collectable(l) ==
    /\ layerAttrs[l].connected
    /\ layerAttrs[l].renderable
    /\ ~layerAttrs[l].referenced

\* C10: a layer that is not connected to renderLayerManager.renderLayerId, or
\* not renderable, or referenced, never gets an instance; no exception is
\* raised at such a layer, and the pass that reaches its end has created an
\* instance for every other layer
C10_UncollectableLayersSkipped ==
    /\ \A i \in 1..Len(Created) : Collectable(Created[i].data["renderlayer"])
    /\ collector.pc = "failed" /\ collector.todo # <<>>
           => Collectable(collector.todo[1])
    /\ collector.pc = "done"
           => \A l \in LayerNames :
                  Collectable(l) =>
                      \E i \in 1..Len(Created) : Created[i].data["renderlayer"] = l

\* a pass that came to its end over a layer not linked to the manager, a layer
\* not renderable and, after them in display order, a layer that got its
\* instance
C10_Witness ==
    /\ collector.pc = "done"
    /\ \E l \in SeqToSet(collector.skipped), m \in LayerNames :
           /\ ~layerAttrs[l].connected
           /\ ~layerAttrs[m].renderable
           /\ Len(Created) = 1
           /\ layerAttrs[l].displayOrder < DisplayOrder(Created[1])
           /\ layerAttrs[m].displayOrder < DisplayOrder(Created[1])

----------------------------------------------------------------------------
(* C11, C12 *)

\* the render type the set of the image sequence has in a layer
RenderTypeOf(l) == layerValue[<<InstanceNode, "renderType">>][l]

KnownRenderType(l) ==
    RenderTypeOf(l) \in {Str(<<"playblast">>), Str(<<"turntable">>),
                         Str(<<"batchrender">>)}

\* the instances of the context that are of a layer
InstancesOf(l) ==
    {i \in 1..Len(context.instances) :
        /\ "renderlayer" \in DOMAIN context.instances[i].data
        /\ context.instances[i].data["renderlayer"] = l}

\* C11: a pass given a placeholder, whatever its members, comes to its end
\* unless a layer has an unknown render type, and then every layer that is
\* linked, renderable and local has exactly one instance, and the context
\* holds no other instance of the family reveries.imgseq
C11_OneInstancePerValidLayer ==
    /\ collector.pc = "failed" =>
           \/ collector.todo = <<>>
           \/ ~KnownRenderType(collector.todo[1])
    /\ collector.pc = "done" =>
           /\ \A l \in LayerNames :
                  (Collectable(l) /\ KnownRenderType(l)) =>
                      Cardinality(InstancesOf(l)) = 1
           /\ \A i \in 1..Len(context.instances) :
                  context.instances[i].data["family"] = "reveries.imgseq" =>
                      \E l \in LayerNames : Collectable(l) /\ i \in InstancesOf(l)

\* C12: a pass that meets a collectable layer of unknown render type does not
\* come to its end; it raises, and no instance of that layer is in the context
C12_UnknownRenderTypeAborts ==
    /\ collector.pc = "done" =>
           \A l \in LayerNames : Collectable(l) => KnownRenderType(l)
    /\ (/\ collector.pc = "failed"
        /\ collector.todo # <<>>
        /\ ~KnownRenderType(collector.todo[1])) =>
           /\ collector.error = "AttributeError"
           /\ InstancesOf(collector.todo[1]) = {}

----------------------------------------------------------------------------
(* the variants of the collector: lock state, renderer, platform, members *)

\* the default layer of a file imported under the namespace "shot"
ImportedDefaultLayer == <<"shot:", "defaultRenderLayer">>

\* the rig of CollectScene with a second mesh-owning transform in the group
VariantScene ==
    [n \in DOMAIN CollectScene \cup {"B", "BShape"} |->
        IF n = "B" THEN NewNode("ROOT", "transform")
        ELSE IF n = "BShape" THEN NewNode("B", "mesh")
        ELSE CollectScene[n]]

Renderers == {"arnold", "vray", "mayaSoftware"}

\* what editRenderLayerMembers gives for a layer: nothing, the group, a
\* transform and a camera, or a mesh itself
MemberChoices ==
    {<<>>, <<<<"ROOT">>>>, <<<<"A">>, <<"cam1">>>>, <<<<"AShape">>>>}

\* set_extraction_type called on the data of an instance with n output paths
SetExtractionType(n) ==
    LET paths == [i \in 1..n |->
                     <<IF i = 1 THEN <<>> ELSE <<"aov">> \o [j \in 1..i |-> "_"],
                       <<"renders", "/", "file">>>>]
        data == set_extraction_type([outputPaths |-> paths])
    IN  /\ call' = [NoCall EXCEPT !.op = "set_extraction_type",
                                  !.list = paths,
                                  !.value = data["extractType"]]
        /\ UNCHANGED sceneVars

VariantInit ==
    /\ renderLayers \in {SceneLayers,
                         <<DefaultRenderLayer, Layer1, ImportedDefaultLayer>>}
    /\ currentRenderLayer = Layer1
    /\ dag = VariantScene
    /\ connections = [p \in CollectPlugs |->
                         IF OverridingLayer(p) \in LayerNames
                         THEN <<OverridingLayer(p), DefaultRenderLayer>>
                         ELSE <<>>]
    /\ \E renderType \in RenderTypes, renderer \in Renderers :
           layerValue =
               [p \in CollectPlugs |->
                   [l \in LayerNames |->
                       IF p[2] = "currentRenderer" /\ l # OverridingLayer(p)
                       THEN Str(<<renderer>>)
                       ELSE SceneValue(p, l, renderType)]]
    /\ \E members \in MemberChoices :
           layerAttrs = [l \in LayerNames |->
                            [NewLayer(IndexOf(renderLayers, l, 1))
                                EXCEPT !.members = members]]
    /\ \E locked \in BOOLEAN, sep \in {"/", "\\"} :
           host = [locked |-> locked, sep |-> sep, renderSetup |-> FALSE]
    /\ \E instances \in {<<OtherInstance, DummyInstance(<<<<"cam1">>, <<"cam2">>>>)>>,
                          <<DummyInstance(<<<<"cam1Shape">>>>), OtherInstance>>},
          workspaceDir \in {<<"proj">>, <<"C:", "\\", "proj">>} :
           context = [instances |-> instances,
                      data |-> [workspaceDir |-> workspaceDir, mayaVersion |-> 2017]]
    /\ collector = Idle
    /\ call = NoCall

VariantNext ==
    \/ Begin
    \/ ProcessLayer
    \/ Finish
    \/ \E n \in 0..MaxPaths : SetExtractionType(n)

SpecVariants == VariantInit /\ [][VariantNext]_vars

----------------------------------------------------------------------------
(* C13 - C20 *)

\* the instances the pass created for a variant
IsVariant(inst, variant) == inst.data["families"] = <<variant>>

Has(inst, key) == key \in DOMAIN inst.data

\* C13: the instance of the default layer is named masterLayer and the
\* instance of every other layer has the layer's own name, also when that
\* name ends in defaultRenderLayer
C13_InstanceNaming ==
    \A i \in 1..Len(Created) :
        Created[i].name =
            IF Created[i].data["renderlayer"] = DefaultRenderLayer
            THEN <<"masterLayer">>
            ELSE Created[i].data["renderlayer"]

\* C14: a playblast instance created while the scene is not locked has
\* optional and publish set to False, and one created while it is locked
\* has neither key
C14_PlayblastLockGate ==
    \A i \in 1..Len(Created) :
        IsVariant(Created[i], "reveries.imgseq.playblast") =>
            IF host.locked
            THEN ~Has(Created[i], "optional") /\ ~Has(Created[i], "publish")
            ELSE /\ Has(Created[i], "optional") /\ Has(Created[i], "publish")
                 /\ Created[i].data["optional"] = Bool(FALSE)
                 /\ Created[i].data["publish"] = Bool(FALSE)

\* a pass over an unlocked scene that came to its end with the playblast
\* instances of three layers, each with the two flags False
C14_Witness ==
    /\ collector.pc = "done"
    /\ ~host.locked
    /\ Len(Created) = 3
    /\ \A i \in 1..3 :
           /\ IsVariant(Created[i], "reveries.imgseq.playblast")
           /\ Created[i].data["publish"] = Bool(FALSE)

\* C15: a batchrender instance never has optional or publish written, whether
\* the scene is locked or not
C15_BatchrenderNotGated ==
    \A i \in 1..Len(Created) :
        IsVariant(Created[i], "reveries.imgseq.batchrender") =>
            ~Has(Created[i], "optional") /\ ~Has(Created[i], "publish")

\* a pass over an unlocked scene that came to its end with batchrender
\* instances
C15_Witness ==
    /\ collector.pc = "done"
    /\ ~host.locked
    /\ Len(Created) = 3
    /\ \A i \in 1..3 : /\ IsVariant(Created[i], "reveries.imgseq.batchrender")
                       /\ Has(Created[i], "extractType")

\* C16: a turntable instance created while the scene is not locked does not
\* have optional or publish forced to False
C16_TurntableNotGated ==
    \A i \in 1..Len(Created) :
        (IsVariant(Created[i], "reveries.imgseq.turntable") /\ ~host.locked) =>
            /\ Has(Created[i], "optional") => Created[i].data["optional"] # Bool(FALSE)
            /\ Has(Created[i], "publish") => Created[i].data["publish"] # Bool(FALSE)

\* the channel names the renderer of an instance reports for its layer
Reported(inst) ==
    IF inst.data["renderer"] = Str(<<"vray">>)
    THEN get_vray_element_names(inst.data["renderlayer"])
    ELSE IF inst.data["renderer"] = Str(<<"arnold">>)
    THEN get_arnold_aov_names(inst.data["renderlayer"])
    ELSE <<>>

\* the keys of an instance's outputPaths, in order
Keys(inst) ==
    [k \in 1..Len(inst.data["outputPaths"]) |-> inst.data["outputPaths"][k][1]]

\* C17: the keys of outputPaths are the channel names the renderer reports,
\* in their order, then the primary channel '' last; the mapping is never
\* empty and for a renderer other than vray and arnold has the one key ''
C17_ChannelsThenPrimary ==
    \A i \in 1..Len(Created) :
        Has(Created[i], "outputPaths") =>
            /\ Keys(Created[i]) = Reported(Created[i]) \o <<<<>>>>
            /\ Keys(Created[i]) # <<>>
            /\ Created[i].data["renderer"] = Str(<<"mayaSoftware">>) =>
                   Keys(Created[i]) = <<<<>>>>
            /\ Created[i].data["renderer"] = Str(<<"arnold">>) =>
                   Keys(Created[i]) = <<<<"diffuse">>, <<"specular">>, <<>>>>

\* an arnold instance with the keys diffuse, specular, ''
C17_Witness ==
    \E i \in 1..Len(Created) :
        /\ Has(Created[i], "outputPaths")
        /\ Created[i].data["renderer"] = Str(<<"arnold">>)
        /\ Keys(Created[i]) = <<<<"diffuse">>, <<"specular">>, <<>>>>

\* C18: every value of outputPaths is the context's output directory, '/',
\* and the file name composed for the layer and the channel, with every
\* backslash turned into a forward slash; no output path holds a backslash
C18_ForwardSlashPaths ==
    \A i \in 1..Len(Created) :
        Has(Created[i], "outputPaths") =>
            \A k \in 1..Len(Created[i].data["outputPaths"]) :
                LET aov == Created[i].data["outputPaths"][k][1]
                    path == Created[i].data["outputPaths"][k][2]
                    composed == context.data["outputDir"] \o <<"/">>
                                    \o compose_render_filename(
                                           Created[i].data["renderlayer"], aov)
                IN  /\ Len(path) = Len(composed)
                    /\ \A c \in 1..Len(path) :
                           /\ path[c] # "\\"
                           /\ path[c] = IF composed[c] = "\\" THEN "/"
                                        ELSE composed[c]

\* the host joins paths with backslashes, the workspace path has one, and an
\* instance has its output paths
C18_Witness ==
    /\ host.sep = "\\"
    /\ \E c \in 1..Len(context.data["workspaceDir"]) :
           context.data["workspaceDir"][c] = "\\"
    /\ \E i \in 1..Len(Created) :
           /\ Has(Created[i], "outputPaths")
           /\ Len(Created[i].data["outputPaths"]) > 1

MeshesOf(l) ==
    LET ids == {NodeOf(layerAttrs[l].members[k]) :
                   k \in 1..Len(layerAttrs[l].members)}
    IN  {n \in Nodes :
            /\ dag[n].type = "mesh"
            /\ ~dag[n].intermediateObject
            /\ (n \in ids \/ AncestorsOf(n) \cap ids # {})}

\* C20: every instance the pass created has among its members the parent
\* transform of every such mesh of its layer
C20_MemberClosure ==
    \A i \in 1..Len(Created) :
        \A n \in MeshesOf(Created[i].data["renderlayer"]) :
            LongName(dag[n].parent) \in SeqToSet(Created[i].members)

----------------------------------------------------------------------------
(* C21 - C24 *)

\* the placeholders: instances of the family that are of no layer
Placeholders ==
    {i \in 1..Len(context.instances) :
        /\ context.instances[i].data["family"] = "reveries.imgseq"
        /\ ~Has(context.instances[i], "renderlayer")}

\* the long names of the transforms that own a mesh of a layer
MeshTransformsOf(l) == {LongName(dag[n].parent) : n \in MeshesOf(l)}

\* C21: once the pass has begun no placeholder is left in the context, and
\* the members of every created instance are the placeholder's members
\* followed by nothing but the mesh transforms of its own layer
C21_PlaceholderReplaced ==
    /\ collector.pc # "idle" => Placeholders = {}
    /\ \A i \in 1..Len(Created) :
           LET m == Created[i].members
               d == collector.dummy_members
           IN  /\ Len(m) >= Len(d)
               /\ SubSeq(m, 1, Len(d)) = d
               /\ SeqToSet(SubSeq(m, Len(d) + 1, Len(m)))
                      \subseteq MeshTransformsOf(Created[i].data["renderlayer"])

\* a pass that came to its end with the instance of a layer with mesh members
\* before the instance of a layer without, which has the placeholder's
\* members only
C21_Witness ==
    /\ collector.pc = "done"
    /\ Len(Created) >= 2
    /\ Len(Created[1].members) > Len(collector.dummy_members)
    /\ Created[2].members = collector.dummy_members
    /\ collector.dummy_members # <<>>

\* the contractor keys of an instance are those of a route when deadlineEnable
\* is true, and are absent when it is false
Routed(inst, route) ==
    IF Truthy(inst.data["deadlineEnable"])
    THEN /\ Has(inst, "useContractor") /\ Has(inst, "publishContractor")
         /\ inst.data["useContractor"] = Bool(TRUE)
         /\ inst.data["publishContractor"] = Str(<<route>>)
    ELSE ~Has(inst, "useContractor") /\ ~Has(inst, "publishContractor")

\* the subset the set of the image sequence has in the layer of an instance
SubsetOf(inst) == layerValue[<<InstanceNode, "subset">>][inst.data["renderlayer"]][2]

\* the name a layer goes by: masterLayer for the default layer, its own name
\* for any other
LayerLabel(l) == IF l = DefaultRenderLayer THEN <<"masterLayer">> ELSE l

\* C22: a playblast instance has the subset as it was, the category Playblast
\* and the script route; a turntable or batchrender instance has the subset
\* followed by '.' and the name of its layer, the category 'Turntable: ' or
\* 'Render: ' and the renderer, and the render route; the route is set when
\* deadlineEnable is true and absent otherwise
C22_ClassifiedByRenderType ==
    \A i \in 1..Len(Created) :
        LET inst == Created[i]
        IN  /\ IsVariant(inst, "reveries.imgseq.playblast") =>
                   /\ inst.data["subset"] = Str(SubsetOf(inst))
                   /\ inst.data["category"] = <<"Playblast">>
                   /\ Routed(inst, "deadline.maya.script")
            /\ IsVariant(inst, "reveries.imgseq.turntable") =>
                   /\ inst.data["subset"] =
                          Str(SubsetOf(inst) \o <<".">>
                                  \o LayerLabel(inst.data["renderlayer"]))
                   /\ inst.data["category"] = <<"Turntable: ">> \o inst.data["renderer"][2]
                   /\ Routed(inst, "deadline.maya.render")
            /\ IsVariant(inst, "reveries.imgseq.batchrender") =>
                   /\ inst.data["subset"] =
                          Str(SubsetOf(inst) \o <<".">>
                                  \o LayerLabel(inst.data["renderlayer"]))
                   /\ inst.data["category"] = <<"Render: ">> \o inst.data["renderer"][2]
                   /\ Routed(inst, "deadline.maya.render")
            /\ \/ IsVariant(inst, "reveries.imgseq.playblast")
               \/ IsVariant(inst, "reveries.imgseq.turntable")
               \/ IsVariant(inst, "reveries.imgseq.batchrender")
               \/ /\ inst.data["families"] = <<>>
                  /\ ~KnownRenderType(inst.data["renderlayer"])

----------------------------------------------------------------------------
(* Camera selection *)

\* the cameras among the members the instance had when its variant ran and
\* the nodes below them
HierarchyCameras ==
    {LongName(n) : n \in {c \in Nodes :
        /\ dag[c].type = "camera"
        /\ \E i \in 1..Len(collector.dummy_members) :
               LET m == NodeOf(collector.dummy_members[i])
               IN  c = m \/ m \in AncestorsOf(c)}}

C23_PlayblastWitness ==
    \E i \in 1..Len(Created) :
        /\ IsVariant(Created[i], "reveries.imgseq.playblast")
        /\ Has(Created[i], "renderCam")
        /\ Cam2Shape \in SeqToSet(Created[i].data["renderCam"])
        /\ Cam2Shape \notin SeqToSet(RenderableIn(Created[i].data["renderlayer"]))

----------------------------------------------------------------------------
(* Abort semantics *)

\* the layers the instances in the context were created for, in their order
CreatedLayers == [i \in 1..Len(Created) |-> Created[i].data["renderlayer"]]

\* a scene whose render type is overridden in one layer with a type that has
\* no variant, every layer renderable and local, one of them perhaps not
\* linked to the manager
AbortInit ==
    /\ renderLayers = SceneLayers
    /\ currentRenderLayer = Layer1
    /\ dag = CollectScene
    /\ \E odd \in LayerNames \ {DefaultRenderLayer},
          renderType \in {"playblast", "turntable", "batchrender"} :
           /\ connections =
                  [p \in CollectPlugs |->
                      IF p = <<InstanceNode, "renderType">>
                      THEN <<odd, DefaultRenderLayer>>
                      ELSE IF OverridingLayer(p) = NoLayer THEN <<>>
                      ELSE <<OverridingLayer(p), DefaultRenderLayer>>]
           /\ layerValue =
                  [p \in CollectPlugs |->
                      [l \in LayerNames |->
                          IF p = <<InstanceNode, "renderType">> /\ l = odd
                          THEN Str(<<"custom">>)
                          ELSE SceneValue(p, l, renderType)]]
    /\ \E order \in [LayerNames -> 0..MaxDisplayOrder], linked \in BOOLEAN :
           layerAttrs =
               [l \in LayerNames |->
                   [NewLayer(0) EXCEPT !.connected = (l # Layer1) \/ linked,
                                       !.displayOrder = order[l],
                                       !.members = IF l = Layer2 THEN <<>>
                                                   ELSE <<<<"A">>, <<"cam1">>>>]]
    /\ host = [locked |-> FALSE, sep |-> "/", renderSetup |-> FALSE]
    /\ \E instances \in {<<OtherInstance, DummyInstance(<<<<"cam1">>, <<"cam2">>>>)>>,
                          <<DummyInstance(<<<<"cam1Shape">>>>), OtherInstance>>} :
           context = [instances |-> instances,
                      data |-> [workspaceDir |-> <<"proj">>, mayaVersion |-> 2017]]
    /\ collector = Idle
    /\ call = NoCall

AbortNext ==
    \/ Begin
    \/ ProcessLayer
    \/ Finish

SpecAbort == AbortInit /\ [][AbortNext]_vars

\* C24: a pass that came to its end has one instance for every valid layer; a
\* pass that an exception stopped at a layer has one instance for every valid
\* layer before it in display order and none for any layer after it; and no
\* step of a pass, the stopping one included, changes or removes an instance
\* created before
C24_AbortSemantics ==
    /\ [](/\ collector.pc = "done" =>
               \A l \in LayerNames :
                   Cardinality(InstancesOf(l)) = IF Collectable(l) THEN 1 ELSE 0
          /\ (collector.pc = "failed" /\ collector.error # "AssertionError") =>
               /\ collector.todo # <<>>
               /\ \A k \in 2..Len(collector.todo) :
                      InstancesOf(collector.todo[k]) = {}
               /\ \A l \in LayerNames \ SeqToSet(collector.todo) :
                      Cardinality(InstancesOf(l)) = IF Collectable(l) THEN 1 ELSE 0)
    /\ [][/\ Len(Created') >= Len(Created)
          /\ SubSeq(Created', 1, Len(Created)) = Created
          /\ collector'.pc = "failed" => Len(Created') <= Len(Created) + 1]_vars

\* a pass stopped by an exception at a layer that had a layer before it
\* and has a layer after it
C24_Witness ==
    /\ collector.pc = "failed"
    /\ Len(collector.todo) >= 2
    /\ Collectable(collector.todo[2])
    /\ Len(Created) >= 2
    /\ Created[Len(Created)].data["renderlayer"] = collector.todo[1]
    /\ Collectable(collector.todo[1])
    /\ collector.error = "AttributeError"

----------------------------------------------------------------------------
(* Type coercion in the resolver *)

\* the scene of the collector with every attribute it reads either overridden
\* in layer1 or in no layer
CoercionInit ==
    /\ NoCollection
    /\ renderLayers = SceneLayers
    /\ currentRenderLayer = DefaultRenderLayer
    /\ dag = CollectScene
    /\ \E first \in {Layer1, DefaultRenderLayer}, overridden \in BOOLEAN,
          renderType \in RenderTypes :
           /\ connections = [p \in CollectPlugs |->
                                 IF ~overridden THEN <<>>
                                 ELSE IF first = Layer1
                                 THEN <<Layer1, DefaultRenderLayer>>
                                 ELSE <<DefaultRenderLayer, Layer1>>]
           /\ layerValue =
                  [p \in CollectPlugs |->
                      [l \in LayerNames |->
                          IF overridden /\ l = Layer1
                          THEN SceneValue(p, OverridingLayer(p), renderType)
                          ELSE SceneValue(p, DefaultRenderLayer, renderType)]]
    /\ call = NoCall

CoercionNext ==
    \/ \E p \in CollectPlugs, layer \in LayerNames :
           QueryByRenderlayer(p[1], p[2], layer)
    \/ \E layer \in LayerNames : EditRenderLayerGlobals(layer)

SpecCoercion == CoercionInit /\ [][CoercionNext]_vars

\* the layer whose adjustment a query of a layer reads
AdjustmentRead(c) ==
    IF c.layer \in SeqToSet(connections[<<c.node, c.attr>>])
    THEN c.layer ELSE DefaultRenderLayer

\* a query answered from a layer's adjustments
ReadFromAdjustments(c) ==
    /\ IsQuery(c)
    /\ c.layer # currentRenderLayer
    /\ connections[<<c.node, c.attr>>] # <<>>

\* C25: a value read from a layer's adjustments comes back in the
\* attribute's declared type, a boolean stored as 0.0 or 1.0 as false or
\* true, and equal to the attribute's own value in that layer; a value of a
\* type that is no Python type comes back as it is stored; no error is raised
C25_TypeCoercion ==
    ReadFromAdjustments(call) =>
        LET p == <<call.node, call.attr>>
            own == layerValue[p][AdjustmentRead(call)]
            stored == RawValue(own)
        IN  /\ call.status = "ok"
            /\ AttrType(p) = "bool" =>
                   /\ stored[1] = "float"
                   /\ call.value = <<"bool", IF stored[2] = 0 THEN 0 ELSE 1>>
            /\ AttrType(p) \in {"bool", "long", "float"} =>
                   /\ call.value[1] = AttrType(p)
                   /\ call.value = own
            /\ AttrType(p) \notin {"bool", "long", "float"} =>
                   call.value = stored

\* a boolean override stored as 1.0 read as true
C25_Witness ==
    /\ ReadFromAdjustments(call)
    /\ call.attr = "deadlineEnable"
    /\ call.layer = Layer1
    /\ RawValue(layerValue[<<call.node, call.attr>>][Layer1]) = <<"float", 1>>
    /\ call.value = <<"bool", 1>>

\* a value of the type time, which is no Python type in the module, read as
\* the floating point number the adjustment holds
C25_UnknownTypeWitness ==
    /\ ReadFromAdjustments(call)
    /\ call.attr = "startFrame"
    /\ call.status = "ok"
    /\ call.value = <<"float", 1>>

----------------------------------------------------------------------------
(* reveries.utils.AssetHasher *)

\* no scene, no layers of interest and no collection pass
OutsideTheScene ==
    /\ PlainLayers
    /\ dag = <<>>
    /\ layerAttrs = [l \in SeqToSet(SceneLayers) |-> NewLayer(0)]
    /\ context = [instances |-> <<>>, data |-> <<>>]
    /\ collector = Idle

\* the entries of the file system in the order a directory lists them
EntryOrder == <<"top", "sub", "deep", "f1", "f2">>

Directories == {"top", "sub", "deep"}

Files == {"f1", "f2"}

\* the directories, then the files, directly in a directory
SubDirs(tree, d) ==
    SelectSeq(EntryOrder, LAMBDA e : e \in Directories /\ tree[e] = d)

FilesIn(tree, d) ==
    SelectSeq(EntryOrder, LAMBDA e : e \in Files /\ tree[e] = d)

\* os.walk(top): top, then the walk of each of its sub-directories
RECURSIVE os_walk(_, _)
os_walk(tree, top) ==
    LET dirs == SubDirs(tree, top)
        below[i \in 0..Len(dirs)] ==
            IF i = 0 THEN <<>> ELSE below[i - 1] \o os_walk(tree, dirs[i])
    IN  <<top>> \o below[Len(dirs)]

\* add_dir: the files it hands to add_file, in order
RECURSIVE add_dir(_, _, _)
add_dir(tree, dir_path, recursive) ==
    LET walk == os_walk(tree, dir_path)
        of(root) ==
            LET dirs == SubDirs(tree, root)
                sub[i \in 0..Len(dirs)] ==
                    IF i = 0 THEN <<>>
                    ELSE sub[i - 1] \o add_dir(tree, dirs[i], TRUE)
            IN  FilesIn(tree, root) \o (IF ~recursive THEN <<>> ELSE sub[Len(dirs)])
        fed[i \in 0..Len(walk)] ==
            IF i = 0 THEN <<>> ELSE fed[i - 1] \o of(walk[i])
    IN  fed[Len(walk)]

\* hasher.add_file(path): the file's bytes go into the running hash
AddFile(f) ==
    /\ Len(host.hash_obj) < MaxFed
    /\ host' = [host EXCEPT !.hash_obj = Append(@, f)]
    /\ call' = [NoCall EXCEPT !.op = "add_file", !.node = <<f>>, !.list = <<f>>]
    /\ UNCHANGED <<layerVars, dag, layerAttrs, context, collector>>

\* hasher.add_dir(path, recursive)
AddDir(d, recursive) ==
    /\ Len(host.hash_obj) < MaxFed
    /\ LET fed == add_dir(host.tree, d, recursive)
       IN  /\ host' = [host EXCEPT !.hash_obj = @ \o fed]
           /\ call' = [NoCall EXCEPT !.op = "add_dir", !.node = <<d>>,
                                     !.value = Bool(recursive), !.list = fed]
    /\ UNCHANGED <<layerVars, dag, layerAttrs, context, collector>>

\* hasher.clear(): a new hash session
Clear ==
    /\ host.hash_obj # <<>>
    /\ host' = [host EXCEPT !.hash_obj = <<>>]
    /\ call' = [NoCall EXCEPT !.op = "clear"]
    /\ UNCHANGED <<layerVars, dag, layerAttrs, context, collector>>

\* a directory with a sub-directory and a third one in either of them, and
\* two files anywhere; a new hasher
HasherInit ==
    /\ OutsideTheScene
    /\ \E deepIn \in {"top", "sub"}, in1 \in Directories, in2 \in Directories :
           host = [tree |-> [e \in SeqToSet(EntryOrder) |->
                                IF e = "top" THEN "/"
                                ELSE IF e = "sub" THEN "top"
                                ELSE IF e = "deep" THEN deepIn
                                ELSE IF e = "f1" THEN in1 ELSE in2],
                   hash_obj |-> <<>>]
    /\ call = NoCall

HasherNext ==
    \/ \E f \in Files : AddFile(f)
    \/ \E d \in Directories, recursive \in BOOLEAN : AddDir(d, recursive)
    \/ Clear

SpecHasher == HasherInit /\ [][HasherNext]_vars

\* whether a file is in a directory at any depth
RECURSIVE Under(_, _, _)
Under(tree, e, d) ==
    /\ e # "top"
    /\ (tree[e] = d \/ Under(tree, tree[e], d))

\* how many times a call fed a file
TimesFed(c, f) == Cardinality({i \in 1..Len(c.list) : c.list[i] = f})

\* C26: add_dir(dir, recursive=True) feeds every file under dir at any depth
\* once and no other file; add_dir(dir, recursive=False) feeds the files
\* directly in dir once and none of those below its sub-directories
C26_AddDirFeedsOnce ==
    call.op = "add_dir" =>
        \A f \in Files :
            TimesFed(call, f) =
                IF call.value = Bool(TRUE)
                THEN (IF Under(host.tree, f, call.node[1]) THEN 1 ELSE 0)
                ELSE (IF host.tree[f] = call.node[1] THEN 1 ELSE 0)

\* the non-recursive part alone
C26_NonRecursiveStaysOnTop ==
    (call.op = "add_dir" /\ call.value = Bool(FALSE)) =>
        \A f \in Files :
            TimesFed(call, f) = IF host.tree[f] = call.node[1] THEN 1 ELSE 0

\* the recursive part alone
C26_RecursiveFeedsOnce ==
    (call.op = "add_dir" /\ call.value = Bool(TRUE)) =>
        \A f \in Files :
            TimesFed(call, f) = IF Under(host.tree, f, call.node[1]) THEN 1 ELSE 0

----------------------------------------------------------------------------
(* reveries.maya.lib.filter_mesh_parenting *)

\* the transforms of the scene in the order the host lists them, and the
\* characters of their names
ParentingOrder == <<"ROOT", "A", "A2", "B", "B2", "C">>

Chars(n) ==
    IF n = "ROOT" THEN <<"R", "O", "O", "T">>
    ELSE IF n = "A2" THEN <<"A", "2">>
    ELSE IF n = "B2" THEN <<"B", "2">>
    ELSE <<n>>

\* cmds.ls(node, long=True), character by character
RECURSIVE FullPath(_)
FullPath(n) ==
    (IF dag[n].parent = World THEN <<>> ELSE FullPath(dag[n].parent))
        \o <<"|">> \o Chars(n)

\* cmds.ls(cmds.listRelatives(node, children=True, fullPath=True), long=True,
\* type="transform")
SubTransforms(n) ==
    LET found == SelectSeq(ParentingOrder, LAMBDA c : c \in Nodes /\ dag[c].parent = n)
    IN  [i \in 1..Len(found) |-> FullPath(found[i])]

\* cmds.ls(children, type="mesh") is not empty
HasMesh(n) == \E c \in Nodes : dag[c].parent = n /\ dag[c].type = "mesh"

\* phase 1, from the i-th transform on
RECURSIVE Phase1(_, _, _, _)
Phase1(nodes, i, cleaned_1, blacksheep) ==
    IF i > Len(nodes) THEN [cleaned_1 |-> cleaned_1, blacksheep |-> blacksheep]
    ELSE LET node == FullPath(nodes[i])
             sub_transforms == SubTransforms(nodes[i])
         IN  IF node \in SeqToSet(blacksheep)
             THEN Phase1(nodes, i + 1, cleaned_1, blacksheep)
             ELSE Phase1(nodes, i + 1, Append(cleaned_1, node),
                         IF HasMesh(nodes[i]) /\ sub_transforms # <<>>
                         THEN blacksheep \o sub_transforms
                         ELSE blacksheep)

filter_mesh_parenting(transforms) ==
    LET p == Phase1(transforms, 1, <<>>, <<>>)
    IN  SelectSeq(p.cleaned_1, LAMBDA node :
            ~\E k \in 1..Len(p.blacksheep) : StartsWith(node, p.blacksheep[k]))

\* filter_mesh_parenting(cmds.ls(sl=True))
FilterMeshParenting ==
    /\ host.selection # <<>>
    /\ call' = [NoCall EXCEPT !.op = "filter_mesh_parenting",
                              !.nodes = host.selection,
                              !.list = filter_mesh_parenting(host.selection)]
    /\ UNCHANGED sceneVars

\* the artist adds a transform to the selection
Select(n) ==
    /\ n \notin SeqToSet(host.selection)
    /\ Len(host.selection) < MaxTransforms
    /\ host' = [host EXCEPT !.selection = Append(@, n)]
    /\ call' = NoCall
    /\ UNCHANGED <<layerVars, dag, layerAttrs, context, collector>>

\* ROOT over A and A2, B and C below A as in the docstring, B2 below A or A2;
\* C, B2 and A2 are polygon objects, ROOT, A and B are or are not
ParentingScene(meshes, parentOfB2) ==
    [n \in SeqToSet(ParentingOrder) \cup {m \o "Shape" : m \in meshes} |->
        IF n = "ROOT" THEN NewNode(World, "transform")
        ELSE IF n \in {"A", "A2"} THEN NewNode("ROOT", "transform")
        ELSE IF n = "B" THEN NewNode("A", "transform")
        ELSE IF n = "B2" THEN NewNode(parentOfB2, "transform")
        ELSE IF n = "C" THEN NewNode("B", "transform")
        ELSE NewNode(CHOOSE m \in meshes : m \o "Shape" = n, "mesh")]

ParentingInit ==
    /\ PlainLayers
    /\ layerAttrs = [l \in SeqToSet(SceneLayers) |-> NewLayer(0)]
    /\ context = [instances |-> <<>>, data |-> <<>>]
    /\ collector = Idle
    /\ host = [selection |-> <<>>]
    /\ \E some \in SUBSET {"ROOT", "A", "B"}, parentOfB2 \in {"A", "A2"} :
           dag = ParentingScene(some \cup {"A2", "B2", "C"}, parentOfB2)
    /\ call = NoCall

ParentingNext ==
    \/ \E n \in SeqToSet(ParentingOrder) : Select(n)
    \/ FilterMeshParenting

SpecParenting == ParentingInit /\ [][ParentingNext]_vars

\* a transform child of a polygon object that is one of `among`, or a node
\* below such a child
MeshParented(n, among) ==
    \E q \in {n} \cup AncestorsOf(n) :
        /\ dag[q].parent \in among
        /\ HasMesh(dag[q].parent)

\* the paths of the transforms of a list that are not mesh-parented, in order
Unparented(transforms, among) ==
    LET kept == SelectSeq(transforms, LAMBDA n : ~MeshParented(n, among))
    IN  [i \in 1..Len(kept) |-> FullPath(kept[i])]

\* C27: filter_mesh_parenting returns the input transforms, in order,
\* without those that are a transform child of a polygon object or below
\* such a child, and with every other
C27_MeshParentedRemoved ==
    call.op = "filter_mesh_parenting" =>
        call.list = Unparented(call.nodes, SeqToSet(ParentingOrder))

\* the same with the polygon objects being those handed to the call
C27_MeshParentedInInputRemoved ==
    call.op = "filter_mesh_parenting" =>
        call.list = Unparented(call.nodes, SeqToSet(call.nodes))

\* the docstring's example: ROOT and A are kept, B and C removed
C27_DocstringExample ==
    /\ call.op = "filter_mesh_parenting"
    /\ call.nodes = <<"ROOT", "A", "B", "C">>
    /\ HasMesh("A") /\ HasMesh("B") /\ ~HasMesh("ROOT")
    /\ call.list = <<FullPath("ROOT"), FullPath("A")>>

----------------------------------------------------------------------------
(* reveries.maya.lib.set_scene_timeline *)

\* FPS_MAP, the rates in thousandths of a frame per second
FPS_MAP ==
    [fps \in {15000, 23976, 24000, 29970, 30000, 48000, 50000, 60000} |->
        IF fps = 15000 THEN "game"
        ELSE IF fps \in {23976, 24000} THEN "film"
        ELSE IF fps \in {29970, 30000} THEN "ntsc"
        ELSE IF fps = 48000 THEN "show"
        ELSE IF fps = 50000 THEN "palf"
        ELSE "ntscf"]

\* utils.get_timeline_data(): the asset's or project's numbers
get_timeline_data(data) ==
    IF data.handles < 1
    THEN [status |-> "ValueError", value |-> <<>>]
    ELSE [status |-> "ok",
          value |-> <<data.edit_in, data.edit_out, data.handles, data.fps>>]

\* utils.compose_timeline_data, a function of no parameter, called with the
\* positional arguments args
compose_timeline_data(args, data) ==
    IF Len(args) # 0
    THEN [status |-> "TypeError", value |-> <<>>]
    ELSE LET t == get_timeline_data(data)
         IN  IF t.status # "ok" THEN t
             ELSE [status |-> "ok",
                   value |-> <<t.value[1] - t.value[3], t.value[2] + t.value[3],
                               t.value[4]>>]

\* set_scene_timeline(project=None, asset_name=None), also what the menu's
\* reset_frame_range runs after _override
SetSceneTimeline ==
    LET composed == compose_timeline_data(<<None, None>>, host.data)
    IN  /\ IF composed.status # "ok"
           THEN /\ host' = host
                /\ call' = [NoCall EXCEPT !.op = "set_scene_timeline",
                                          !.status = composed.status]
           ELSE IF composed.value[3] \notin DOMAIN FPS_MAP
           THEN /\ host' = host
                /\ call' = [NoCall EXCEPT !.op = "set_scene_timeline",
                                          !.status = "ValueError"]
           ELSE /\ host' = [host EXCEPT
                               !.currentUnit = FPS_MAP[composed.value[3]],
                               !.animationStartTime = composed.value[1],
                               !.minTime = composed.value[1],
                               !.animationEndTime = composed.value[2],
                               !.maxTime = composed.value[2],
                               !.currentTime = composed.value[1]]
                /\ call' = [NoCall EXCEPT !.op = "set_scene_timeline"]
        /\ UNCHANGED <<layerVars, dag, layerAttrs, context, collector>>

\* utils.compose_timeline_data() called the way it is defined
ComposeTimelineData ==
    LET composed == compose_timeline_data(<<>>, host.data)
    IN  /\ call' = [NoCall EXCEPT !.op = "compose_timeline_data",
                                  !.status = composed.status,
                                  !.list = composed.value]
        /\ UNCHANGED sceneVars

\* the artist moves the current time
CurrentTime(t) ==
    /\ t # host.currentTime
    /\ host' = [host EXCEPT !.currentTime = t]
    /\ call' = NoCall
    /\ UNCHANGED <<layerVars, dag, layerAttrs, context, collector>>

\* a new scene, and a project of any of a few ranges, handles and rates
TimelineInit ==
    /\ OutsideTheScene
    /\ \E edit_in \in {1, 2}, edit_out \in {3, 4}, handles \in {0, 1},
          fps \in {23976, 24000, 25000} :
           host = [data |-> [edit_in |-> edit_in, edit_out |-> edit_out,
                             handles |-> handles, fps |-> fps],
                   currentUnit |-> "film",
                   animationStartTime |-> 1, minTime |-> 1,
                   animationEndTime |-> 2, maxTime |-> 2,
                   currentTime |-> 1]
    /\ call = NoCall

TimelineNext ==
    \/ SetSceneTimeline
    \/ ComposeTimelineData
    \/ \E t \in 0..MaxFrame : CurrentTime(t)

SpecTimeline == TimelineInit /\ [][TimelineNext]_vars

\* C28: a call of set_scene_timeline with a rate that FPS_MAP knows ends with
\* the animation start and min time at edit_in - handles, the animation end
\* and max time at edit_out + handles and the current time at the start; with
\* any other rate it raises ValueError and the time unit, the playback range
\* and the current time are as before
C28_TimelineSetOrValueError ==
    [][call'.op = "set_scene_timeline" =>
          IF host.data.fps \in DOMAIN FPS_MAP
          THEN /\ call'.status = "ok"
               /\ host'.animationStartTime = host.data.edit_in - host.data.handles
               /\ host'.minTime = host.data.edit_in - host.data.handles
               /\ host'.animationEndTime = host.data.edit_out + host.data.handles
               /\ host'.maxTime = host.data.edit_out + host.data.handles
               /\ host'.currentTime = host.data.edit_in - host.data.handles
          ELSE /\ call'.status = "ValueError"
               /\ host' = host]_vars

\* every call of set_scene_timeline raises TypeError and changes nothing
C28_AlwaysTypeError ==
    [][call'.op = "set_scene_timeline" =>
          call'.status = "TypeError" /\ host' = host]_vars

----------------------------------------------------------------------------
(* reveries.maya.lib: acquire_lock_state, lock_nodes, restore_lock_state *)

\* the three flags of cmds.lockNode on a node
LockFlags(n) == <<dag[n].lock, dag[n].lockName, dag[n].lockUnpublished>>

\* no lock state held: the dictionary of an empty list of nodes
NoLockState == [uuids |-> <<>>, isLock |-> <<>>, isLockName |-> <<>>,
                isLockUnpublished |-> <<>>]

acquire_lock_state(nodes) ==
    [uuids |-> nodes,
     isLock |-> [i \in 1..Len(nodes) |-> dag[nodes[i]].lock],
     isLockName |-> [i \in 1..Len(nodes) |-> dag[nodes[i]].lockName],
     isLockUnpublished |-> [i \in 1..Len(nodes) |-> dag[nodes[i]].lockUnpublished]]

\* cmds.lockNode(nodes, lock=, lockName=, lockUnpublished=) on a scene
lockNode(scene, nodes, lock, lockName, lockUnpublished) ==
    [n \in DOMAIN scene |->
        IF n \in nodes
        THEN [scene[n] EXCEPT !.lock = lock, !.lockName = lockName,
                              !.lockUnpublished = lockUnpublished]
        ELSE scene[n]]

\* the loop of restore_lock_state: the uuid is popped, and the three flags
\* are popped only when the node still exists
RECURSIVE restore_lock_state(_, _)
restore_lock_state(lock_state, scene) ==
    IF lock_state.uuids = <<>> THEN [lock_state |-> lock_state, scene |-> scene]
    ELSE LET uuid == Head(lock_state.uuids)
         IN  IF uuid \notin DOMAIN scene
             THEN restore_lock_state([lock_state EXCEPT !.uuids = Tail(@)], scene)
             ELSE restore_lock_state(
                      [uuids |-> Tail(lock_state.uuids),
                       isLock |-> Tail(lock_state.isLock),
                       isLockName |-> Tail(lock_state.isLockName),
                       isLockUnpublished |-> Tail(lock_state.isLockUnpublished)],
                      lockNode(scene, {uuid}, Head(lock_state.isLock),
                               Head(lock_state.isLockName),
                               Head(lock_state.isLockUnpublished)))

\* a caller keeps the lock state of some nodes
AcquireLockState(nodes) ==
    /\ host.lock_state.uuids = <<>>
    /\ host' = [host EXCEPT !.lock_state = acquire_lock_state(nodes)]
    /\ call' = [NoCall EXCEPT !.op = "acquire_lock_state", !.nodes = nodes]
    /\ UNCHANGED <<layerVars, dag, layerAttrs, context, collector>>

\* lock_nodes(nodes, lock, lockName, lockUnpublished) on every node
LockNodes(lock, lockName, lockUnpublished) ==
    /\ dag' = lockNode(dag, Nodes, lock, lockName, lockUnpublished)
    /\ dag' # dag
    /\ call' = [NoCall EXCEPT !.op = "lock_nodes"]
    /\ UNCHANGED <<layerVars, collectVars>>

\* the artist deletes a node, which the host allows when it is not locked
Delete(n) ==
    /\ ~dag[n].lock
    /\ dag' = [m \in Nodes \ {n} |-> dag[m]]
    /\ call' = NoCall
    /\ UNCHANGED <<layerVars, collectVars>>

\* the caller restores the state it kept, and is left with what the loop did
\* not pop; the call record keeps the state as it was handed in
RestoreLockState ==
    /\ host.lock_state.uuids # <<>>
    /\ LET r == restore_lock_state(host.lock_state, dag)
       IN  /\ dag' = r.scene
           /\ host' = [host EXCEPT !.lock_state = r.lock_state]
           /\ call' = [NoCall EXCEPT
                          !.op = "restore_lock_state",
                          !.nodes = host.lock_state.uuids,
                          !.list = [i \in 1..Len(host.lock_state.uuids) |->
                                       <<host.lock_state.isLock[i],
                                         host.lock_state.isLockName[i],
                                         host.lock_state.isLockUnpublished[i]>>]]
    /\ UNCHANGED <<layerVars, layerAttrs, context, collector>>

\* two nodes with any lock flags, no state kept
LockInit ==
    /\ PlainLayers
    /\ layerAttrs = [l \in SeqToSet(SceneLayers) |-> NewLayer(0)]
    /\ context = [instances |-> <<>>, data |-> <<>>]
    /\ collector = Idle
    /\ host = [lock_state |-> NoLockState]
    /\ \E flags \in [{"n1", "n2"} -> BOOLEAN \X BOOLEAN \X BOOLEAN] :
           dag = [n \in {"n1", "n2"} |->
                     [parent |-> World, type |-> "transform",
                      lock |-> flags[n][1], lockName |-> flags[n][2],
                      lockUnpublished |-> flags[n][3]]]
    /\ call = NoCall

LockNext ==
    \/ \E nodes \in DistinctListsOf(Nodes, MaxLocked) \ {<<>>} : AcquireLockState(nodes)
    \/ \E lock \in BOOLEAN, lockName \in BOOLEAN, lockUnpublished \in BOOLEAN :
           LockNodes(lock, lockName, lockUnpublished)
    \/ \E n \in Nodes : Delete(n)
    \/ RestoreLockState

SpecLock == LockInit /\ [][LockNext]_vars

\* C29: after restore_lock_state(S) every node of S that still exists has
\* the lock, lockName and lockUnpublished values S recorded for that node,
\* whichever other nodes of S were deleted since
C29_LockStateRoundTrip ==
    call.op = "restore_lock_state" =>
        \A i \in 1..Len(call.nodes) :
            call.nodes[i] \in Nodes => LockFlags(call.nodes[i]) = call.list[i]

\* the round trip when no node of S was deleted
C29_RoundTripWithoutDeletion ==
    (call.op = "restore_lock_state" /\ SeqToSet(call.nodes) \subseteq Nodes) =>
        \A i \in 1..Len(call.nodes) : LockFlags(call.nodes[i]) = call.list[i]

----------------------------------------------------------------------------
(* reveries.maya: install, uninstall *)

\* the plug-in registries: pyblish's, and avalon's one per plug-in class
Registries == {"publish", "Loader", "Creator", "InventoryAction"}

\* PUBLISH_PATH, LOAD_PATH, CREATE_PATH, INVENTORY_PATH
PUBLISH_PATH == <<"plugins", "maya", "publish">>

LOAD_PATH == <<"plugins", "maya", "load">>

CREATE_PATH == <<"plugins", "maya", "create">>

INVENTORY_PATH == <<"plugins", "maya", "inventory">>

\* a path of another configuration
OtherPath == <<"avalon", "plugins">>

register_plugin_path(registered, registry, path) ==
    [registered EXCEPT ![registry] = @ \cup {path}]

deregister_plugin_path(registered, registry, path) ==
    [registered EXCEPT ![registry] = @ \ {path}]

\* the events install hooks a callback to
Events == {"init", "new", "open", "save", "before_save", "taskChanged"}

Install ==
    /\ host' = [host EXCEPT
                   !.menu = TRUE,
                   !.registered =
                       register_plugin_path(
                           register_plugin_path(
                               register_plugin_path(
                                   register_plugin_path(@, "publish", PUBLISH_PATH),
                                   "Loader", LOAD_PATH),
                               "Creator", CREATE_PATH),
                           "InventoryAction", INVENTORY_PATH),
                   !.callbacks = @ \cup Events,
                   !.overridden = TRUE,
                   !.installed = Bool(TRUE)]
    /\ call' = [NoCall EXCEPT !.op = "install"]
    /\ UNCHANGED <<layerVars, dag, layerAttrs, context, collector>>

Uninstall ==
    /\ host' = [host EXCEPT
                   !.menu = FALSE,
                   !.registered =
                       deregister_plugin_path(
                           deregister_plugin_path(
                               deregister_plugin_path(@, "publish", PUBLISH_PATH),
                               "Loader", LOAD_PATH),
                           "Creator", CREATE_PATH),
                   !.installed = Bool(FALSE)]
    /\ call' = [NoCall EXCEPT !.op = "uninstall"]
    /\ UNCHANGED <<layerVars, dag, layerAttrs, context, collector>>

\* another configuration registers or deregisters a path of its own
RegisterOther(registry) ==
    /\ host' = [host EXCEPT !.registered =
                   IF OtherPath \in @[registry]
                   THEN deregister_plugin_path(@, registry, OtherPath)
                   ELSE register_plugin_path(@, registry, OtherPath)]
    /\ call' = [NoCall EXCEPT !.op = "register_plugin_path"]
    /\ UNCHANGED <<layerVars, dag, layerAttrs, context, collector>>

\* the module as imported: installed is None, nothing of it registered
InstallInit ==
    /\ OutsideTheScene
    /\ host = [menu |-> FALSE,
               registered |-> [r \in Registries |-> {}],
               callbacks |-> {},
               overridden |-> FALSE,
               installed |-> None]
    /\ call = NoCall

InstallNext ==
    \/ Install
    \/ Uninstall
    \/ \E registry \in Registries : RegisterOther(registry)

SpecInstall == InstallInit /\ [][InstallNext]_vars

\* the paths of the module that are registered
OwnPaths ==
    UNION {host.registered[r] : r \in Registries}
        \cap {PUBLISH_PATH, LOAD_PATH, CREATE_PATH, INVENTORY_PATH}

\* C30: after uninstall no path that install registers is left in a
\* registry, so that install followed by uninstall leaves the registries as
\* they were; installed is None until the first call, True after install and
\* False after uninstall
C30_InstallUninstallRoundTrip ==
    /\ host.installed = None
    /\ [](/\ call.op = "install" => host.installed = Bool(TRUE)
          /\ call.op = "uninstall" =>
                 host.installed = Bool(FALSE) /\ OwnPaths = {})
    /\ [][host'.installed # host.installed =>
              call'.op \in {"install", "uninstall"}]_vars

\* installed alone: None, then True after install and False after uninstall
C30_InstalledFlag ==
    /\ host.installed = None
    /\ [](/\ call.op = "install" => host.installed = Bool(TRUE)
          /\ call.op = "uninstall" => host.installed = Bool(FALSE))
    /\ [][host'.installed # host.installed =>
              call'.op \in {"install", "uninstall"}]_vars

\* what uninstall leaves of an install: the inventory path
C30_InventoryPathLeft ==
    [][(call.op = "install" /\ call'.op = "uninstall") =>
          OwnPaths' = {INVENTORY_PATH}]_vars

====
